---- MODULE Spec2Model ----
(***************************************************************************)
(* SGU Monthly Attendance (src/app_database.py): the attendance record     *)
(* lifecycle.  The store (Supabase tables), the process-wide st.cache_data *)
(* memoizations and the per-browser-session st.session_state are the       *)
(* state; every button of the Streamlit script is one action, which is one *)
(* complete run of the script with that button pressed.                    *)
(***************************************************************************)
EXTENDS Integers, FiniteSets, Sequences, TLC

\* ------------------------------------------------------------ universe
MaxVal == 1          \* largest number typed into a LecturesHeld / Attended cell
CurrentYear == 2025  \* datetime.now().year
CurrentMonth == 9    \* datetime.now().month

Vals == 0..MaxVal
Students == {"S1", "S2"}
StaleId == "S9"      \* an enrollment binding whose student is not in the roster
Courses == {"C1", "C2"}
Sessions == {"A", "B"}
NoOne == "-"
STATUS_LOCKED == "LOCKED"
STATUS_DRAFT == "DRAFT"
NONE == "NONE"       \* no row / no status
NoPassword == "None" \* no Danger Zone password in the secrets
Faculties == {"F1", "F2"}

\* Phone numbers and PINs are texts, a character per element.
Digits == {"0", "1", "2", "3", "4", "5", "6", "7", "8", "9"}
UsualPhone == <<"5", "5", "5", "1", "2", "3", "4">>
UsualPin == <<"1", "2", "3", "4">>
WrongPin == <<"0", "0", "0", "0">>
\* What may be typed into "PIN (Last 4 of Phone)" (max_chars=4).
Pins == {UsualPin, WrongPin, <<"9", "9", "9", "9">>, <<"2", "3", "4">>,
         <<"1", "2", "3", "x">>, <<>>}

MONTH_NAMES == <<"January", "February", "March", "April", "May", "June", "July",
                 "August", "September", "October", "November", "December">>
MonthChoices == {"September", "October"}

\* month_key(month_name, year): year followed by the two-digit month number;
\* an unknown name maps to month 01.
month_key(month_name, year) ==
    LET idx == {i \in 1..Len(MONTH_NAMES) : MONTH_NAMES[i] = month_name}
    IN  year * 100 + (IF idx = {} THEN 1 ELSE CHOOSE i \in idx : TRUE)

MonthKeys == {month_key(n, CurrentYear) : n \in MonthChoices}

\* The text of the key, a character per element.  str(n): the decimal digits
\* of a natural number; f"{i:02d}": two digits at least, zero-padded.
RECURSIVE Str(_)
Str(n) == IF n < 10 THEN <<n>> ELSE Str(n \div 10) \o <<n % 10>>
Pad2(i) == IF i < 10 THEN <<0, i>> ELSE Str(i)

\* Faulty variant: the month number is not padded.
MonthKeyTextUnpadded(month_name, year) ==
    LET idx == {i \in 1..Len(MONTH_NAMES) : MONTH_NAMES[i] = month_name}
    IN  Str(IF year = 0 THEN CurrentYear ELSE year)
           \o (IF idx = {} THEN <<0, 1>> ELSE Str(CHOOSE i \in idx : TRUE))

\* month_key as the text it returns; year 0 stands for no year given (the
\* current year is taken).
MonthKeyText(month_name, year) ==
    LET idx == {i \in 1..Len(MONTH_NAMES) : MONTH_NAMES[i] = month_name}
    IN  Str(IF year = 0 THEN CurrentYear ELSE year)
           \o (IF idx = {} THEN <<0, 1>> ELSE Pad2(CHOOSE i \in idx : TRUE))
Groups == Courses \X MonthKeys
NoGroup == <<NoOne, 0>>

\* ------------------------------------------------------------ rows
\* A row of the attendance table for one student of one group.
NoRow == [held |-> 0, att |-> 0, status |-> NONE, remarks |-> "", by |-> NoOne]
\* A row of the editable grid (entry_df / edited_df).
NoCell == [held |-> 0, att |-> 0, status |-> NONE, remarks |-> ""]
NoRows == [st \in Students |-> NoRow]
NoGrid == [st \in Students |-> NoCell]

VARIABLES
    att,            \* attendance table: [Groups -> [Students -> row]]
    enrollment,     \* student_course_enrollment: [Courses -> SUBSET ids]
    roster,         \* students table: the active students of the class scope
    courseTbl,      \* courses table: [Courses -> assigned faculty or NoOne]
    facultyTbl,     \* faculty table: the faculty ids on record
    rosterCache,    \* st.cache_data of load_roster
    enrCache,       \* st.cache_data of get_enrolled_students
    attCache,       \* st.cache_data of get_attendance_records
    isAdmin,        \* session_state["IS_ADMIN"]
    identity,       \* session_state["IDENTITY"]
    selection,      \* session_state.faculty_course_selection
    month,          \* the editor's Month selectbox
    confirm_lock,   \* session_state["confirm_lock"]
    unlock_target,  \* session_state["unlock_target"]
    confirm_unlock, \* session_state["confirm_unlock"]
    pending,        \* a script run stopped between its reads and its upsert
    last,           \* what the last interaction was and what it displayed
    sumCache,       \* memo of get_attendance_status_summary
    coursesCache,   \* memo of get_courses
    view,           \* the entry grid on the screen
    calc,           \* a computation of a run: its function, inputs and result
    DANGER_ZONE_PASSWORD,   \* st.secrets["danger_zone"]["password"], or none
    DANGER_ZONE_ACTIVE,     \* session_state["DANGER_ZONE_ACTIVE"]
    phone_number,   \* the phone_number column of the faculty table
    facultyMemo     \* memos of authenticate_faculty and
                    \* get_all_assigned_courses_for_faculty

storeVars == <<att, enrollment, roster, courseTbl, facultyTbl>>
cacheVars == <<rosterCache, enrCache, attCache>>
moreVars == <<sumCache, coursesCache, view>>
dangerVars == <<DANGER_ZONE_PASSWORD, DANGER_ZONE_ACTIVE>>
authVars == <<phone_number, facultyMemo>>
sessVars == <<isAdmin, identity, selection, month, confirm_lock, unlock_target,
              confirm_unlock>>
vars == <<att, enrollment, roster, courseTbl, facultyTbl, rosterCache, enrCache, attCache,
          isAdmin, identity, selection, month, confirm_lock, unlock_target,
          confirm_unlock, pending, last, sumCache, coursesCache, view, calc,
          DANGER_ZONE_PASSWORD, DANGER_ZONE_ACTIVE, phone_number, facultyMemo>>

\* ------------------------------------------------------------ cached reads
\* Each read is memoized by st.cache_data: a cached entry is returned as it
\* is; otherwise the store is queried, and a query that raises is caught
\* inside the function, which then returns (and so caches) an empty result.
\* ok is whether the query succeeded; it is kept beside the entry.
NotCachedIds == [cached |-> FALSE, ok |-> TRUE, ids |-> {}]
NotCachedRows == [cached |-> FALSE, ok |-> TRUE, rows |-> NoRows]

load_roster(cache, tbl, ok) ==
    IF cache.cached THEN cache
    ELSE [cached |-> TRUE, ok |-> ok, ids |-> IF ok THEN tbl ELSE {}]

get_enrolled_students(cache, tbl, course, ok) ==
    IF cache[course].cached THEN cache[course]
    ELSE [cached |-> TRUE, ok |-> ok, ids |-> IF ok THEN tbl[course] ELSE {}]

get_attendance_records(cache, tbl, g, ok) ==
    IF cache[g].cached THEN cache[g]
    ELSE [cached |-> TRUE, ok |-> ok, rows |-> IF ok THEN tbl[g] ELSE NoRows]

\* get_courses of the class configuration: the course rows, each with its
\* assigned faculty.
NotCachedCourses == [cached |-> FALSE, ok |-> TRUE, rows |-> [c \in Courses |-> NoOne]]

get_courses(cache, tbl, ok) ==
    IF cache.cached THEN cache
    ELSE [cached |-> TRUE, ok |-> ok,
          rows |-> IF ok THEN tbl ELSE [c \in Courses |-> NoOne]]

\* get_attendance_status_summary(courses_df): the status of every attendance
\* row of the given courses, by group and student.  The faculty's course list
\* does not change, so the memo has one key.
NoStatuses == [g \in Groups |-> [st \in Students |-> NONE]]
NotCachedSum == [cached |-> FALSE, ok |-> TRUE, rows |-> NoStatuses]

get_attendance_status_summary(cache, tbl, courses, ok) ==
    IF cache.cached THEN cache
    ELSE [cached |-> TRUE, ok |-> ok,
          rows |-> IF ok /\ courses # {}
                   THEN [g \in Groups |-> [st \in Students |->
                            IF g[1] \in courses THEN tbl[g][st].status ELSE NONE]]
                   ELSE NoStatuses]

\* get_attendance_records.clear() / get_enrolled_students.clear(): the whole
\* memo of the function is dropped, for every key.
ClearedAtt == [g \in Groups |-> NotCachedRows]
ClearedEnr == [c \in Courses |-> NotCachedIds]

\* ------------------------------------------------------------ the entry grid
\* students_to_show: the roster filtered by the enrolled ids, or the whole
\* roster when no id is enrolled.
StudentsToShow(roster_ids, enrolled_ids) ==
    IF enrolled_ids # {} THEN {st \in roster_ids : st \in enrolled_ids}
    ELSE roster_ids

\* Faulty variant: a persisted row shows the session's lectures held.
EntryDfSessionHeld(show, lectures_held, recs) ==
    [st \in Students |->
        IF st \notin show THEN NoCell
        ELSE IF recs[st].status # NONE
             THEN [held |-> lectures_held, att |-> recs[st].att,
                   status |-> recs[st].status, remarks |-> recs[st].remarks]
             ELSE [held |-> lectures_held, att |-> 0,
                   status |-> STATUS_DRAFT, remarks |-> ""]]

\* entry_df: one default row per shown student, overlaid by the persisted row
\* of that student where there is one.
EntryDf(show, lectures_held, recs) ==
    [st \in Students |->
        IF st \notin show THEN NoCell
        ELSE IF recs[st].status # NONE
             THEN [held |-> recs[st].held, att |-> recs[st].att,
                   status |-> recs[st].status, remarks |-> recs[st].remarks]
             ELSE [held |-> lectures_held, att |-> 0,
                   status |-> STATUS_DRAFT, remarks |-> ""]]

\* is_locked = STATUS_LOCKED in entry_df['Status'].unique()
IsLocked(entry) == \E st \in Students : entry[st].status = STATUS_LOCKED

\* Faulty variant: only one of the offending rows is reported.
ValidationErrorsFirstOnly(edited) ==
    LET bad == {st \in Students : edited[st].status # NONE /\ edited[st].att > edited[st].held}
    IN  IF bad = {} THEN {} ELSE {CHOOSE st \in bad : TRUE}

\* Faulty variant: the comparison is off by one.
ValidationErrorsOffByOne(edited) ==
    {st \in Students : edited[st].status # NONE /\ edited[st].att > edited[st].held + 1}

\* errors: the rows of the edited grid with Attended > LecturesHeld.
ValidationErrors(edited) ==
    {st \in Students : edited[st].status # NONE /\ edited[st].att > edited[st].held}

\* Faulty variant: each row keeps the Status of its grid row instead of status_to_set.
UpsertKeepStatus(tbl, g, edited, status_to_set, faculty_id) ==
    [tbl EXCEPT ![g] =
        [st \in Students |->
            IF edited[st].status = NONE THEN tbl[g][st]
            ELSE [held |-> edited[st].held, att |-> edited[st].att,
                  status |-> edited[st].status, remarks |-> edited[st].remarks,
                  by |-> faculty_id]]]

\* Faulty variant: the rows of the group that are not in the grid are deleted.
UpsertReplacesGroup(tbl, g, edited, status_to_set, faculty_id) ==
    [tbl EXCEPT ![g] =
        [st \in Students |->
            IF edited[st].status = NONE THEN NoRow
            ELSE [held |-> edited[st].held, att |-> edited[st].att,
                  status |-> status_to_set, remarks |-> edited[st].remarks,
                  by |-> faculty_id]]]

\* Faulty variant: the Remarks column is not written.
UpsertDropsRemarks(tbl, g, edited, status_to_set, faculty_id) ==
    [tbl EXCEPT ![g] =
        [st \in Students |->
            IF edited[st].status = NONE THEN tbl[g][st]
            ELSE [held |-> edited[st].held, att |-> edited[st].att,
                  status |-> status_to_set, remarks |-> "",
                  by |-> faculty_id]]]

\* upsert_data applied to the table: one row per row of the edited grid, the
\* status set uniformly; a row with the same key is replaced, other rows stay.
Upsert(tbl, g, edited, status_to_set, faculty_id) ==
    [tbl EXCEPT ![g] =
        [st \in Students |->
            IF edited[st].status = NONE THEN tbl[g][st]
            ELSE [held |-> edited[st].held, att |-> edited[st].att,
                  status |-> status_to_set, remarks |-> edited[st].remarks,
                  by |-> faculty_id]]]

\* Faulty variant: the update matches the month only, whatever the course.
UnlockUpdateAnyCourse(tbl, g) ==
    [h \in Groups |->
        IF h[2] # g[2] THEN tbl[h]
        ELSE [st \in Students |->
                IF tbl[h][st].status = NONE THEN tbl[h][st]
                ELSE [tbl[h][st] EXCEPT !.status = STATUS_DRAFT]]]

\* update({'status': DRAFT}).match(group): every row of the group.
UnlockUpdate(tbl, g) ==
    [tbl EXCEPT ![g] =
        [st \in Students |->
            IF tbl[g][st].status = NONE THEN tbl[g][st]
            ELSE [tbl[g][st] EXCEPT !.status = STATUS_DRAFT]]]

\* The lifecycle state of a group of rows.
GroupState(rows) ==
    IF \A st \in Students : rows[st].status = NONE THEN "NOT_STARTED"
    ELSE IF \E st \in Students : rows[st].status = STATUS_LOCKED THEN STATUS_LOCKED
    ELSE STATUS_DRAFT

\* st.multiselect(options, default): a default value that is not one of the
\* options raises StreamlitAPIException; nothing catches it, the run ends.
MultiselectRaises(options, default) == ~(default \subseteq options)

\* The editor part of one script run of session s: the reads it makes, in
\* order, and the grid it builds.  open: the roster is not empty (the
\* enrollment expander is entered); raised: the expander's multiselect ended
\* the run; shown: the grid is drawn.
Editor(s, lectures_held, okR, okE, okA) ==
    LET in == identity[s] # NoOne /\ selection[s] # NoOne
        c  == selection[s]
        rc == IF in THEN load_roster(rosterCache, roster, okR) ELSE rosterCache
        open == in /\ rc.ids # {}
        ec == IF open THEN get_enrolled_students(enrCache, enrollment, c, okE)
              ELSE NotCachedIds
        raised == open /\ MultiselectRaises(rc.ids, ec.ids)
        show == IF open /\ ~raised THEN StudentsToShow(rc.ids, ec.ids) ELSE {}
        shown == open /\ ~raised /\ show # {}
        g  == IF shown THEN <<c, month_key(month[s], CurrentYear)>> ELSE NoGroup
        ac == IF shown THEN get_attendance_records(attCache, att, g, okA)
              ELSE NotCachedRows
        entry == IF shown THEN EntryDf(show, lectures_held, ac.rows) ELSE NoGrid
    IN  [open |-> open, raised |-> raised, shown |-> shown, g |-> g, show |-> show, entry |-> entry,
         locked |-> IsLocked(entry),
         rosterCache |-> rc,
         enrCache |-> IF open THEN [enrCache EXCEPT ![c] = ec] ELSE enrCache,
         attCache |-> IF shown THEN [attCache EXCEPT ![g] = ac] ELSE attCache]

\* F names the queries that may raise: "roster", "enrolled", "records" (the
\* reads), "write" (upsert / update of attendance), "enroll" (delete / insert
\* of enrollment).  Ok(F, q): the outcomes of query q.
Ok(F, q) == IF q \in F THEN BOOLEAN ELSE {TRUE}

\* The outcomes of the queries the editor part of a run of session s makes:
\* a read answered from the memo queries nothing, so it cannot fail.
EditorFaults(s, F) ==
    {t \in Ok(F, "roster") \X Ok(F, "enrolled") \X Ok(F, "records") :
        LET E == Editor(s, 0, TRUE, TRUE, TRUE)
            in == identity[s] # NoOne /\ selection[s] # NoOne IN
        /\ (~t[1]) => (in /\ ~rosterCache.cached)
        /\ (~t[2]) => (t[1] /\ E.open /\ ~enrCache[selection[s]].cached)
        /\ (~t[3]) => (t[1] /\ Editor(s, 0, TRUE, t[2], TRUE).shown
                        /\ ~attCache[Editor(s, 0, TRUE, t[2], TRUE).g].cached)}

\* The students with a row in a grid, and those whose row has Attended above
\* LecturesHeld.
Shown(grid) == {st \in Students : grid[st].status # NONE}
Over(grid) == {st \in Shown(grid) : grid[st].att > grid[st].held}

\* What an interaction was and what it put on the screen.
\* rows, over: the students in the grid the interaction used, and the ones
\* whose row had Attended above LecturesHeld; errors: the students warned
\* about; prev: the state of the group's persisted rows before.
\* out: "saved" (toast), "rejected" (warnings), "db_error" (st.error),
\* "exception" (the run ended in an uncaught exception) or "".
Obs(s, a, g, prev, edited, errors, out) ==
    [s |-> s, a |-> a, g |-> g, prev |-> prev, rows |-> Shown(edited),
     over |-> Over(edited), errors |-> errors, out |-> out]
\* An interaction that reports nothing about attendance or enrollment.
Quiet == Obs(NoOne, "", NoGroup, NONE, NoGrid, {}, "")

\* The grid a run draws, as the screen shows it: the value of "Total Lectures
\* Held" and the cells.  The screen is recorded where view.on is set.
Seen(lectures_held, cells) ==
    IF view.on THEN [on |-> TRUE, lh |-> lectures_held, cells |-> cells] ELSE view
NoView(on) == [on |-> on, lh |-> 0, cells |-> NoGrid]

\* No computation recorded.
NoCalc == [f |-> "", in |-> <<>>, done |-> FALSE, out |-> <<>>]

NoPending ==
    [active |-> FALSE, g |-> NoGroup, edited |-> NoGrid, status |-> NONE, a |-> ""]

\* ------------------------------------------------------------ initial state
InitStore(roster0, enr0, courses0, faculty0) ==
    /\ att = [g \in Groups |-> NoRows]
    /\ enrollment = enr0
    /\ roster = roster0
    /\ courseTbl = courses0
    /\ facultyTbl = faculty0

\* The memos of authenticate_faculty and get_all_assigned_courses_for_faculty,
\* empty.  Neither memo is ever cleared.  They are recorded where on is set;
\* elsewhere the faculty and the course tables keep the answers unchanged
\* (or no faculty logs in), and a memoized answer is the table's answer.
NotCached == "uncached"
NoMemo(on) ==
    [on |-> on,
     auth |-> [k \in Faculties \X Pins |-> NotCached],
     assigned |-> [f \in Faculties |-> [cached |-> FALSE, rows |-> {}]]]

InitSession(password, on) ==
    /\ DANGER_ZONE_PASSWORD = password
    /\ phone_number = [f \in Faculties |-> UsualPhone]
    /\ facultyMemo = NoMemo(on)
    /\ DANGER_ZONE_ACTIVE = [s \in Sessions |-> FALSE]
    /\ rosterCache = NotCachedIds
    /\ enrCache = ClearedEnr
    /\ attCache = ClearedAtt
    /\ isAdmin = [s \in Sessions |-> FALSE]
    /\ identity = [s \in Sessions |-> NoOne]
    /\ selection = [s \in Sessions |-> NoOne]
    /\ month = [s \in Sessions |-> MONTH_NAMES[CurrentMonth]]
    /\ confirm_lock = [s \in Sessions |-> FALSE]
    /\ unlock_target = [s \in Sessions |-> NoGroup]
    /\ confirm_unlock = [s \in Sessions |-> FALSE]
    /\ pending = [s \in Sessions |-> NoPending]
    /\ last = Quiet
    /\ sumCache = NotCachedSum
    /\ coursesCache = NotCachedCourses

InitWith(password) == InitSession(password, FALSE)

\* No Danger Zone password in the secrets.
InitRest == InitWith(NoPassword)

\* One course, assigned to F1; the whole class active; nobody enrolled.
Init ==
    /\ InitStore(Students, [c \in Courses |-> {}],
                 [c \in Courses |-> IF c = "C1" THEN "F1" ELSE NoOne], {"F1"})
    /\ InitRest
    /\ view = NoView(FALSE)
    /\ calc = NoCalc

\* ------------------------------------------------------------ sidebar, login
\* "Login as Admin": IS_ADMIN becomes whether the credentials matched.
AdminLogin(s) ==
    /\ ~isAdmin[s]
    /\ \E good \in BOOLEAN : isAdmin' = [isAdmin EXCEPT ![s] = good]
    /\ last' = Quiet
    /\ UNCHANGED <<storeVars, cacheVars, identity, selection, month, confirm_lock,
                   unlock_target, confirm_unlock, pending,
                   moreVars, calc, dangerVars, authVars>>

\* is_danger_unlocked()
is_danger_unlocked(s) == DANGER_ZONE_ACTIVE[s]
\* lock_danger_zone()
lock_danger_zone(s) == [DANGER_ZONE_ACTIVE EXCEPT ![s] = FALSE]
\* try_unlock_danger_zone(pw): DANGER_ZONE_ACTIVE becomes whether a password
\* is configured and pw is that password.
try_unlock_danger_zone(s, pw) ==
    [DANGER_ZONE_ACTIVE EXCEPT
        ![s] = (DANGER_ZONE_PASSWORD # NoPassword /\ pw = DANGER_ZONE_PASSWORD)]

\* Faulty variant: the Danger Zone stays as it is when the admin logs out.
AdminLogoutKeepsUnlock(s) ==
    /\ isAdmin[s]
    /\ isAdmin' = [isAdmin EXCEPT ![s] = FALSE]
    /\ last' = Quiet
    /\ UNCHANGED <<storeVars, cacheVars, identity, selection, month, confirm_lock,
                   unlock_target, confirm_unlock, pending,
                   moreVars, calc, dangerVars, authVars>>

\* "Logout Admin": IS_ADMIN is popped and the Danger Zone is locked (the
\* other flags of the session stay).
AdminLogout(s) ==
    /\ isAdmin[s]
    /\ isAdmin' = [isAdmin EXCEPT ![s] = FALSE]
    /\ DANGER_ZONE_ACTIVE' = lock_danger_zone(s)
    /\ last' = Quiet
    /\ UNCHANGED <<storeVars, cacheVars, identity, selection, month, confirm_lock,
                   unlock_target, confirm_unlock, pending,
                   moreVars, calc, DANGER_ZONE_PASSWORD, authVars>>

\* "Login Faculty": IDENTITY becomes what authenticate_faculty returned: a
\* faculty on record, or nothing when the id or the PIN does not match.
\* The query runs on a call the memo does not answer.
isdigit(text) == text # <<>> /\ \A i \in DOMAIN text : text[i] \in Digits
Last4(text) == SubSeq(text, Len(text) - 3, Len(text))

Authenticated(tbl, phones, faculty_id, pin) ==
    IF faculty_id = "" \/ pin = <<>> \/ ~isdigit(pin) \/ Len(pin) # 4 THEN NoOne
    ELSE IF faculty_id \notin tbl THEN NoOne
    ELSE IF phones[faculty_id] # <<>> /\ Len(phones[faculty_id]) >= 4
            /\ Last4(phones[faculty_id]) = pin
    THEN faculty_id
    ELSE NoOne

\* authenticate_faculty(faculty_id, pin): the memoized answer for these
\* arguments, or the query's, which is then memoized.
authenticate_faculty(memo, tbl, phones, faculty_id, pin) ==
    LET key == <<faculty_id, pin>>
        out == IF memo.on /\ memo.auth[key] # NotCached THEN memo.auth[key]
               ELSE Authenticated(tbl, phones, faculty_id, pin) IN
    [out |-> out,
     memo |-> IF memo.on THEN [memo EXCEPT !.auth[key] = out] ELSE memo]

\* "Login Faculty" with a faculty id and one of the PINs of pins typed:
\* IDENTITY becomes what authenticate_faculty returned.  Where the memos are
\* recorded, so is the call: its inputs and its result.
FacultyLoginWith(s, pins) ==
    /\ identity[s] = NoOne
    /\ \E fac_id \in Faculties, fac_pin \in pins :
        LET identity_check ==
                authenticate_faculty(facultyMemo, facultyTbl, phone_number,
                                     fac_id, fac_pin) IN
        /\ identity' = [identity EXCEPT ![s] = identity_check.out]
        /\ facultyMemo' = identity_check.memo
        /\ calc' = IF facultyMemo.on
                   THEN [f |-> "authenticate_faculty", in |-> <<fac_id, fac_pin>>,
                         done |-> TRUE, out |-> identity_check.out]
                   ELSE calc
    /\ last' = Quiet
    /\ UNCHANGED <<storeVars, cacheVars, isAdmin, selection, month, confirm_lock,
                   unlock_target, confirm_unlock, pending,
                   moreVars, dangerVars, phone_number>>

FacultyLogin(s) == FacultyLoginWith(s, {UsualPin, WrongPin})

\* Faulty variant: the selection survives the logout.
FacultyLogoutKeepsSelection(s) ==
    /\ identity[s] # NoOne
    /\ identity' = [identity EXCEPT ![s] = NoOne]
    /\ month' = [month EXCEPT ![s] = MONTH_NAMES[CurrentMonth]]
    /\ last' = Quiet
    /\ UNCHANGED <<storeVars, cacheVars, isAdmin, selection, confirm_lock,
                   unlock_target, confirm_unlock, pending,
                   moreVars, calc, dangerVars, authVars>>

\* "Logout Faculty": IDENTITY and faculty_course_selection are popped;
\* confirm_lock is not.  The "Month" selectbox is no longer drawn, so it is
\* back at the current month when it is drawn again.
FacultyLogout(s) ==
    /\ identity[s] # NoOne
    /\ identity' = [identity EXCEPT ![s] = NoOne]
    /\ selection' = [selection EXCEPT ![s] = NoOne]
    /\ month' = [month EXCEPT ![s] = MONTH_NAMES[CurrentMonth]]
    /\ last' = Quiet
    /\ UNCHANGED <<storeVars, cacheVars, isAdmin, confirm_lock,
                   unlock_target, confirm_unlock, pending,
                   moreVars, calc, dangerVars, authVars>>

\* The courses assigned to a faculty, as the query answers.
AssignedCourses(f) == {c \in Courses : f # NoOne /\ courseTbl[c] = f}

\* get_all_assigned_courses_for_faculty(faculty_id): the memoized answer, or
\* the query's, which is then memoized.
get_all_assigned_courses_for_faculty(memo, faculty_id) ==
    LET rows == IF memo.on /\ memo.assigned[faculty_id].cached
                THEN memo.assigned[faculty_id].rows
                ELSE AssignedCourses(faculty_id) IN
    [rows |-> rows,
     memo |-> IF memo.on
              THEN [memo EXCEPT !.assigned[faculty_id] =
                                    [cached |-> TRUE, rows |-> rows]]
              ELSE memo]

\* The faculty dashboard: with courses assigned, the status summary is read
\* and every course card shows a status for each recent month.
Dashboard(s, F) ==
    /\ identity[s] # NoOne
    /\ selection[s] = NoOne
    /\ LET courses_df == get_all_assigned_courses_for_faculty(facultyMemo, identity[s])
           courses == courses_df.rows IN
       /\ facultyMemo' = courses_df.memo
       /\ IF courses = {} THEN sumCache' = sumCache
          ELSE \E ok \in (IF sumCache.cached THEN {TRUE} ELSE Ok(F, "summary")) :
               sumCache' = get_attendance_status_summary(sumCache, att, courses, ok)
    /\ last' = Obs(s, "Dashboard", NoGroup, NONE, NoGrid, {}, "")
    /\ UNCHANGED <<storeVars, cacheVars, sessVars, pending, coursesCache, view, calc,
                   dangerVars, phone_number>>

\* "Enter / Edit Attendance" on a card of the dashboard of assigned courses.
SelectCourse(s) ==
    /\ identity[s] # NoOne
    /\ selection[s] = NoOne
    /\ LET courses_df == get_all_assigned_courses_for_faculty(facultyMemo, identity[s]) IN
       /\ facultyMemo' = courses_df.memo
       /\ \E c \in courses_df.rows : selection' = [selection EXCEPT ![s] = c]
    /\ last' = Quiet
    /\ UNCHANGED <<storeVars, cacheVars, isAdmin, identity, month, confirm_lock,
                   unlock_target, confirm_unlock, pending,
                   moreVars, calc, dangerVars, phone_number>>

\* "Back to Dashboard": the selection is dropped; the "Month" selectbox is no
\* longer drawn, so it is back at the current month when it is drawn again.
BackToDashboard(s) ==
    /\ identity[s] # NoOne
    /\ selection[s] # NoOne
    /\ selection' = [selection EXCEPT ![s] = NoOne]
    /\ month' = [month EXCEPT ![s] = MONTH_NAMES[CurrentMonth]]
    /\ last' = Quiet
    /\ UNCHANGED <<storeVars, cacheVars, isAdmin, identity, confirm_lock,
                   unlock_target, confirm_unlock, pending,
                   moreVars, calc, dangerVars, authVars>>

\* The "Month" selectbox of the editor: another month is chosen.
SelectMonth(s) ==
    /\ identity[s] # NoOne
    /\ selection[s] # NoOne
    /\ \E month_name \in MonthChoices \ {month[s]} :
          month' = [month EXCEPT ![s] = month_name]
    /\ last' = Quiet
    /\ UNCHANGED <<storeVars, cacheVars, isAdmin, identity, selection, confirm_lock,
                   unlock_target, confirm_unlock, pending,
                   moreVars, calc, dangerVars, authVars>>

\* ------------------------------------------------------------ enrollment
\* Faulty variant: the new bindings are added to the ones the course has.
update_course_enrollmentMerging(tbl, cache, course, student_ids, okDelete, okInsert) ==
    IF ~okDelete \/ (student_ids # {} /\ ~okInsert)
    THEN [enrollment |-> tbl, enrCache |-> cache, out |-> "db_error"]
    ELSE [enrollment |-> [tbl EXCEPT ![course] = tbl[course] \cup student_ids],
          enrCache |-> ClearedEnr, out |-> "saved"]

\* Faulty variant: the memo of get_enrolled_students is not cleared.
update_course_enrollmentNoClear(tbl, cache, course, student_ids, okDelete, okInsert) ==
    IF ~okDelete THEN [enrollment |-> tbl, enrCache |-> cache, out |-> "db_error"]
    ELSE IF student_ids # {} /\ ~okInsert
    THEN [enrollment |-> [tbl EXCEPT ![course] = {}], enrCache |-> cache,
          out |-> "db_error"]
    ELSE [enrollment |-> [tbl EXCEPT ![course] = student_ids],
          enrCache |-> cache, out |-> "saved"]

\* update_course_enrollment: delete the bindings of the course, insert the new
\* ones if there are any, then clear the memo of get_enrolled_students.  A
\* call that raises ends the function there.
update_course_enrollment(tbl, cache, course, student_ids, okDelete, okInsert) ==
    IF ~okDelete THEN [enrollment |-> tbl, enrCache |-> cache, out |-> "db_error"]
    ELSE IF student_ids # {} /\ ~okInsert
    THEN [enrollment |-> [tbl EXCEPT ![course] = {}], enrCache |-> cache,
          out |-> "db_error"]
    ELSE [enrollment |-> [tbl EXCEPT ![course] = student_ids],
          enrCache |-> ClearedEnr, out |-> "saved"]

\* "Update Enrollment" in the editor's expander: the multiselect offers the
\* students of the roster.  last.rows: the students selected.
UpdateEnrollment(s, F) ==
    \E t \in EditorFaults(s, F) :
        LET E == Editor(s, 0, t[1], t[2], TRUE) IN
        /\ t[3]
        /\ E.open /\ ~E.raised
        /\ \E ids \in SUBSET E.rosterCache.ids, okD \in Ok(F, "enroll") :
           \E okI \in (IF okD /\ ids # {} THEN Ok(F, "enroll") ELSE {TRUE}) :
            LET u == update_course_enrollment(enrollment, E.enrCache, selection[s],
                                              ids, okD, okI) IN
            /\ enrollment' = u.enrollment
            /\ enrCache' = u.enrCache
            /\ rosterCache' = E.rosterCache
            /\ last' = [Obs(s, "UpdateEnrollment", NoGroup, NONE, NoGrid, {}, u.out)
                            EXCEPT !.rows = ids]
        /\ UNCHANGED <<att, roster, courseTbl, facultyTbl, attCache, sessVars, pending,
                   moreVars, calc, dangerVars, authVars>>

\* ------------------------------------------------------------ the editor
\* edited_df: the grid with any LecturesHeld and Attended of V and any Remarks
\* of R typed in.
EditsOver(entry, R, V) ==
    LET show == {st \in Students : entry[st].status # NONE} IN
    {[st \in Students |->
        IF st \in show
        THEN [held |-> f[st].held, att |-> f[st].att,
              status |-> entry[st].status, remarks |-> f[st].remarks]
        ELSE NoCell] :
     f \in [show -> [held : V, att : V, remarks : R]]}

\* The edited grids with the numbers of Vals typed in.
Edits(entry, R) == EditsOver(entry, R, Vals)

\* Faulty variant: a successful save clears no memo.
SaveBlockNoClear(s, E, edited, a, status_to_set, F) ==
    LET errors == ValidationErrors(edited)
        prev == GroupState(att[E.g]) IN
    /\ rosterCache' = E.rosterCache
    /\ enrCache' = E.enrCache
    /\ attCache' = E.attCache
    /\ sumCache' = sumCache
    /\ view' = Seen(0, edited)
    /\ att' = IF errors # {} THEN att
              ELSE Upsert(att, E.g, edited, status_to_set, identity[s])
    /\ last' = Obs(s, a, E.g, prev, edited, errors,
                   IF errors # {} THEN "rejected" ELSE "saved")

\* Faulty variant: with errors, the rows that passed validation are saved all the same.
SaveBlockPartial(s, E, edited, a, status_to_set, F) ==
    LET errors == ValidationErrors(edited)
        prev == GroupState(att[E.g])
        passed == [st \in Students |-> IF st \in errors THEN NoCell ELSE edited[st]] IN
    /\ rosterCache' = E.rosterCache
    /\ enrCache' = E.enrCache
    /\ att' = Upsert(att, E.g, passed, status_to_set, identity[s])
    /\ attCache' = ClearedAtt
    /\ sumCache' = NotCachedSum
    /\ view' = Seen(0, edited)
    /\ last' = Obs(s, a, E.g, prev, edited, errors,
                   IF errors # {} THEN "rejected" ELSE "saved")

\* The save block: validate the edited grid; with no error upsert every row
\* with status_to_set, clear the memos of get_attendance_records and
\* get_attendance_status_summary and rerun.
SaveBlock(s, E, edited, a, status_to_set, F) ==
    LET errors == ValidationErrors(edited)
        prev == GroupState(att[E.g]) IN
    /\ rosterCache' = E.rosterCache
    /\ enrCache' = E.enrCache
    /\ view' = Seen(0, edited)
    /\ IF errors # {}
       THEN /\ att' = att
            /\ attCache' = E.attCache
            /\ sumCache' = sumCache
            /\ last' = Obs(s, a, E.g, prev, edited, errors, "rejected")
       ELSE \E okW \in Ok(F, "write") :
            IF okW
            THEN /\ att' = Upsert(att, E.g, edited, status_to_set, identity[s])
                 /\ attCache' = ClearedAtt
                 /\ sumCache' = NotCachedSum
                 /\ last' = Obs(s, a, E.g, prev, edited, errors, "saved")
            ELSE /\ att' = att
                 /\ attCache' = E.attCache
                 /\ sumCache' = sumCache
                 /\ last' = Obs(s, a, E.g, prev, edited, errors, "db_error")

\* "Save as Draft", the numbers typed into the grid being of V.
SaveDraftOver(s, F, R, V) ==
    \E t \in EditorFaults(s, F) :
        LET E == Editor(s, 0, t[1], t[2], t[3]) IN
        /\ E.shown /\ ~E.locked
        /\ \E edited \in EditsOver(E.entry, R, V) :
              SaveBlock(s, E, edited, "SaveDraft", STATUS_DRAFT, F)
        /\ UNCHANGED <<enrollment, roster, courseTbl, facultyTbl, sessVars, pending,
                   coursesCache, calc, dangerVars, authVars>>

\* "Save as Draft" with numbers of Vals.
SaveDraft(s, F, R) == SaveDraftOver(s, F, R, Vals)

\* Faulty variant: "Submit & Lock" saves as LOCKED at once.
SubmitLockDirect(s, F, R) ==
    \E t \in EditorFaults(s, F) :
        LET E == Editor(s, 0, t[1], t[2], t[3]) IN
        /\ E.shown /\ ~E.locked
        /\ \E edited \in Edits(E.entry, R) :
              SaveBlock(s, E, edited, "SubmitLock", STATUS_LOCKED, F)
        /\ UNCHANGED <<enrollment, roster, courseTbl, facultyTbl, sessVars, pending,
                   coursesCache, calc, dangerVars, authVars>>

\* "Submit & Lock": only the pending-confirmation flag is set.
SubmitLock(s, F, R) ==
    \E t \in EditorFaults(s, F) :
        LET E == Editor(s, 0, t[1], t[2], t[3]) IN
        /\ E.shown /\ ~E.locked
        /\ confirm_lock' = [confirm_lock EXCEPT ![s] = TRUE]
        /\ rosterCache' = E.rosterCache
        /\ enrCache' = E.enrCache
        /\ attCache' = E.attCache
        /\ last' = Obs(s, "SubmitLock", E.g, GroupState(att[E.g]), NoGrid, {}, "")
        /\ UNCHANGED <<storeVars, isAdmin, identity, selection, month,
                       unlock_target, confirm_unlock, pending,
                   moreVars, calc, dangerVars, authVars>>

\* "Yes, Confirm Lock": drawn while confirm_lock is set; the flag is deleted
\* and the save block runs with LOCKED.
ConfirmLock(s, F, R) ==
    \E t \in EditorFaults(s, F) :
        LET E == Editor(s, 0, t[1], t[2], t[3]) IN
        /\ E.shown /\ ~E.locked
        /\ confirm_lock[s]
        /\ confirm_lock' = [confirm_lock EXCEPT ![s] = FALSE]
        /\ \E edited \in Edits(E.entry, R) :
              SaveBlock(s, E, edited, "ConfirmLock", STATUS_LOCKED, F)
        /\ UNCHANGED <<enrollment, roster, courseTbl, facultyTbl, isAdmin, identity, selection,
                       month, unlock_target, confirm_unlock, pending,
                   coursesCache, calc, dangerVars, authVars>>

\* "Cancel" under the lock warning.
CancelLock(s, F) ==
    \E t \in EditorFaults(s, F) :
        LET E == Editor(s, 0, t[1], t[2], t[3]) IN
        /\ E.shown /\ ~E.locked
        /\ confirm_lock[s]
        /\ confirm_lock' = [confirm_lock EXCEPT ![s] = FALSE]
        /\ rosterCache' = E.rosterCache
        /\ enrCache' = E.enrCache
        /\ attCache' = E.attCache
        /\ last' = Quiet
        /\ UNCHANGED <<storeVars, isAdmin, identity, selection, month,
                       unlock_target, confirm_unlock, pending,
                   moreVars, calc, dangerVars, authVars>>

\* ------------------------------------------------------------ admin: unlock
\* "Check Status": the course and month chosen in the Unlock tab become the
\* unlock target.
CheckStatus(s, M) ==
    /\ isAdmin[s]
    /\ \E c \in Courses, m \in M :
        /\ courseTbl[c] # NoOne
        /\ unlock_target' = [unlock_target EXCEPT ![s] = <<c, month_key(m, CurrentYear)>>]
    /\ last' = Quiet
    /\ UNCHANGED <<storeVars, cacheVars, isAdmin, identity, selection, month,
                   confirm_lock, confirm_unlock, pending,
                   moreVars, calc, dangerVars, authVars>>

\* The outcomes of the Unlock tab's read of its target.
TargetFaults(s, cache, F) ==
    IF cache[unlock_target[s]].cached THEN {TRUE} ELSE Ok(F, "records")

\* The records of the unlock target as the Unlock tab reads them.
TargetRecords(s, cache, okA) ==
    get_attendance_records(cache, att, unlock_target[s], okA)

\* "Unlock These Records": drawn when the target's records hold a LOCKED row;
\* only the pending-confirmation flag is set.
UnlockRequest(s, F) ==
    /\ isAdmin[s]
    /\ unlock_target[s] # NoGroup
    /\ \E okA \in TargetFaults(s, attCache, F) :
        /\ LET recs == TargetRecords(s, attCache, okA) IN
            /\ GroupState(recs.rows) = STATUS_LOCKED
            /\ attCache' = [attCache EXCEPT ![unlock_target[s]] = recs]
        /\ confirm_unlock' = [confirm_unlock EXCEPT ![s] = TRUE]
        /\ last' = Obs(s, "UnlockRequest", unlock_target[s],
                       GroupState(att[unlock_target[s]]), NoGrid, {}, "")
        /\ UNCHANGED <<storeVars, rosterCache, enrCache, isAdmin, identity, selection,
                       month, confirm_lock, unlock_target, pending,
                   moreVars, calc, dangerVars, authVars>>

\* "Yes, Confirm Unlock": drawn while confirm_unlock is set; every row of the
\* target group is set to DRAFT, the memo of get_attendance_records is
\* cleared, and the target and the flag are deleted.
ConfirmUnlock(s, F) ==
    /\ isAdmin[s]
    /\ confirm_unlock[s]
    /\ unlock_target[s] # NoGroup
    /\ \E okA \in TargetFaults(s, attCache, F), okW \in Ok(F, "write") :
        /\ LET g == unlock_target[s]
               recs == TargetRecords(s, attCache, okA) IN
            IF okW
            THEN /\ att' = UnlockUpdate(att, g)
                 /\ attCache' = ClearedAtt
                 /\ unlock_target' = [unlock_target EXCEPT ![s] = NoGroup]
                 /\ confirm_unlock' = [confirm_unlock EXCEPT ![s] = FALSE]
                 /\ last' = Obs(s, "ConfirmUnlock", g, GroupState(att[g]), NoGrid, {},
                                "saved")
            ELSE /\ att' = att
                 /\ attCache' = [attCache EXCEPT ![g] = recs]
                 /\ UNCHANGED <<unlock_target, confirm_unlock>>
                 /\ last' = Obs(s, "ConfirmUnlock", g, GroupState(att[g]), NoGrid, {},
                                "db_error")
        /\ UNCHANGED <<enrollment, roster, courseTbl, facultyTbl, rosterCache, enrCache, isAdmin,
                       identity, selection, month, confirm_lock, pending,
                   moreVars, calc, dangerVars, authVars>>

\* "Cancel" under the unlock warning.
CancelUnlock(s) ==
    /\ isAdmin[s]
    /\ confirm_unlock[s]
    /\ confirm_unlock' = [confirm_unlock EXCEPT ![s] = FALSE]
    /\ last' = Quiet
    /\ UNCHANGED <<storeVars, cacheVars, isAdmin, identity, selection, month,
                   confirm_lock, unlock_target, pending,
                   moreVars, calc, dangerVars, authVars>>

\* ------------------------------------------------------------ admin: bulk data
\* An uploaded CSV file: its rows in order, at most MaxFile of them.  A row of
\* a Students or Faculty file is an id; a row of a Courses file is a course
\* code with its assigned faculty.
MaxFile == 2
Files(rows) == UNION {[1..n -> rows] : n \in 1..MaxFile}

\* df[id_col].duplicated().any()
IdOf(upload_type, row) == IF upload_type = "Courses" THEN row[1] ELSE row
\* Faulty variant: the file is not checked for repeated ids.
NoDuplicateCheck(upload_type, file) == FALSE

HasDuplicates(upload_type, file) ==
    \E i, j \in DOMAIN file :
        i < j /\ IdOf(upload_type, file[i]) = IdOf(upload_type, file[j])
\* df[df[id_col].duplicated()][id_col]: the ids of the rows that repeat an
\* earlier row's id, as the error message lists them.
Duplicates(upload_type, file) ==
    {IdOf(upload_type, file[j]) : j \in
        {j \in DOMAIN file : \E i \in 1..(j - 1) :
            IdOf(upload_type, file[i]) = IdOf(upload_type, file[j])}}

\* "Process ... Upload": a file with a repeated id is refused (st.error,
\* st.stop()); otherwise the rows are upserted under the selected class
\* configuration, and st.rerun() ends the run at once: the statements after it,
\* which would clear the memos of load_roster, get_sections_for_class and
\* get_courses, are not executed.  last.over: the repeated ids of the file.
\* The phone_number of each row of a Faculty file is one of phones.
BulkUploadWith(s, F, phones) ==
    /\ isAdmin[s]
    /\ \E upload_type \in {"Students", "Faculty", "Courses"} :
       \E file \in Files(CASE upload_type = "Students" -> Students
                            [] upload_type = "Faculty" -> Faculties
                            [] upload_type = "Courses" -> Courses \X Faculties) :
       \E okW \in Ok(F, "bulk") :
          LET ids == {IdOf(upload_type, file[i]) : i \in DOMAIN file}
              done == ~HasDuplicates(upload_type, file) /\ okW IN
          /\ roster' = IF done /\ upload_type = "Students" THEN roster \cup ids
                        ELSE roster
          /\ facultyTbl' = IF done /\ upload_type = "Faculty" THEN facultyTbl \cup ids
                            ELSE facultyTbl
          /\ IF done /\ upload_type = "Faculty"
             THEN \E numbers \in [ids -> phones] :
                     phone_number' = [f \in Faculties |->
                                        IF f \in ids THEN numbers[f]
                                        ELSE phone_number[f]]
             ELSE phone_number' = phone_number
          /\ courseTbl' = IF done /\ upload_type = "Courses"
                           THEN [c \in Courses |->
                                   IF c \in ids
                                   THEN (CHOOSE r \in {file[i] : i \in DOMAIN file} :
                                            r[1] = c)[2]
                                   ELSE courseTbl[c]]
                           ELSE courseTbl
          /\ last' = [Obs(s, "BulkUpload", NoGroup, upload_type, NoGrid, {},
                           IF HasDuplicates(upload_type, file) THEN "rejected"
                           ELSE IF okW THEN "saved" ELSE "db_error")
                        EXCEPT !.rows = IF upload_type = "Students" THEN ids ELSE {},
                               !.over = Duplicates(upload_type, file)]
    /\ UNCHANGED <<att, enrollment, cacheVars, sessVars, pending, moreVars, calc,
                   dangerVars, facultyMemo>>

BulkUpload(s, F) == BulkUploadWith(s, F, {UsualPhone})

\* A run of the administrator's Enrollment tab with no button pressed: the
\* courses of the class, then, when there are any, the roster and the
\* enrolled students of the course selected.  last.rows: the students the
\* multiselect offers.
EnrollmentTab(s, F) ==
    /\ isAdmin[s]
    /\ \E okC \in (IF coursesCache.cached THEN {TRUE} ELSE Ok(F, "courses")) :
       LET cc == get_courses(coursesCache, courseTbl, okC)
           listed == {c \in Courses : cc.rows[c] # NoOne} IN
       /\ coursesCache' = cc
       /\ IF listed = {}
          THEN /\ UNCHANGED <<rosterCache, enrCache>>
               /\ last' = Obs(s, "EnrollmentTab", NoGroup, NONE, NoGrid, {}, "")
          ELSE \E course \in listed :
               LET rc == load_roster(rosterCache, roster, TRUE)
                   ec == get_enrolled_students(enrCache, enrollment, course, TRUE) IN
               /\ rosterCache' = rc
               /\ enrCache' = IF rc.ids # {} THEN [enrCache EXCEPT ![course] = ec]
                               ELSE enrCache
               /\ last' = [Obs(s, "EnrollmentTab", NoGroup, NONE, NoGrid, {},
                                IF rc.ids # {} /\ MultiselectRaises(rc.ids, ec.ids)
                                THEN "exception" ELSE "")
                             EXCEPT !.rows = rc.ids]
    /\ UNCHANGED <<storeVars, attCache, sessVars, pending, sumCache, view, calc, dangerVars, authVars>>

\* ------------------------------------------------------------ admin: danger zone
\* The Danger Zone tab is drawn inside the admin gate; with no password, or an
\* empty one, in the secrets the section is disabled.
DangerZoneDrawn(s) ==
    isAdmin[s] /\ DANGER_ZONE_PASSWORD \notin {NoPassword, ""}

\* What may be typed into "Enter Danger Zone Password".
TypedPasswords == {"", "secret", "guess"}

\* "Unlock Danger Zone": drawn while the zone is locked.  last.prev: the
\* password typed.
UnlockDangerZone(s) ==
    /\ DangerZoneDrawn(s)
    /\ ~is_danger_unlocked(s)
    /\ \E dz_pw \in TypedPasswords :
        /\ DANGER_ZONE_ACTIVE' = try_unlock_danger_zone(s, dz_pw)
        /\ last' = Obs(s, "UnlockDangerZone", NoGroup, dz_pw, NoGrid, {},
                       IF try_unlock_danger_zone(s, dz_pw)[s] THEN "unlocked"
                       ELSE "incorrect")
    /\ UNCHANGED <<storeVars, cacheVars, sessVars, pending, moreVars, calc,
                   DANGER_ZONE_PASSWORD, authVars>>

\* "Lock Danger Zone": drawn while the zone is unlocked.
LockDangerZone(s) ==
    /\ DangerZoneDrawn(s)
    /\ is_danger_unlocked(s)
    /\ DANGER_ZONE_ACTIVE' = lock_danger_zone(s)
    /\ last' = Quiet
    /\ UNCHANGED <<storeVars, cacheVars, sessVars, pending, moreVars, calc,
                   DANGER_ZONE_PASSWORD, authVars>>

\* "Permanently Delete All Students / Faculty / Courses": drawn while the zone
\* is unlocked.  Every row of the table is deleted; the memo of load_roster
\* is cleared after the students, the memo of get_courses after the courses,
\* none after the faculty.  A delete that raises changes nothing.
\* last.prev: the table.
DeleteAll(s, F) ==
    /\ DangerZoneDrawn(s)
    /\ is_danger_unlocked(s)
    /\ \E table \in {"students", "faculty", "courses"}, okW \in Ok(F, "delete") :
        /\ roster' = IF okW /\ table = "students" THEN {} ELSE roster
        /\ rosterCache' = IF okW /\ table = "students" THEN NotCachedIds
                            ELSE rosterCache
        /\ facultyTbl' = IF okW /\ table = "faculty" THEN {} ELSE facultyTbl
        /\ courseTbl' = IF okW /\ table = "courses" THEN [c \in Courses |-> NoOne]
                          ELSE courseTbl
        /\ coursesCache' = IF okW /\ table = "courses" THEN NotCachedCourses
                             ELSE coursesCache
        /\ last' = Obs(s, "DeleteAll", NoGroup, table, NoGrid, {},
                       IF okW THEN "deleted" ELSE "db_error")
    /\ UNCHANGED <<att, enrollment, enrCache, attCache, sessVars, pending, sumCache,
                   view, calc, dangerVars, authVars>>

\* ------------------------------------------------------------ a plain rerun
\* Faulty variant: the run upserts the grid it has built.
RenderPersisting(s, F, L) ==
    \E lh \in L, t \in EditorFaults(s, F) :
        LET E == Editor(s, lh, t[1], t[2], t[3]) IN
        /\ rosterCache' = E.rosterCache
        /\ enrCache' = E.enrCache
        /\ attCache' = E.attCache
        /\ att' = IF E.shown THEN Upsert(att, E.g, E.entry, STATUS_DRAFT, identity[s])
                  ELSE att
        /\ last' = Obs(s, "Render", E.g,
                       IF E.shown THEN GroupState(att[E.g]) ELSE NONE, E.entry, {},
                       IF E.raised THEN "exception" ELSE "")
        /\ view' = Seen(lh, E.entry)
        /\ UNCHANGED <<enrollment, roster, courseTbl, facultyTbl, sessVars, pending,
                       sumCache, coursesCache, calc, dangerVars, authVars>>

\* A run of the script with no button pressed: the editor's reads, then the
\* Unlock tab's read of its target.  The grid drawn is what is observed.
Render(s, F, L) ==
    \E lh \in L, t \in EditorFaults(s, F) :
        LET E == Editor(s, lh, t[1], t[2], t[3])
            tab == ~E.raised /\ isAdmin[s] /\ unlock_target[s] # NoGroup IN
        /\ rosterCache' = E.rosterCache
        /\ enrCache' = E.enrCache
        /\ IF tab
           THEN \E okU \in TargetFaults(s, E.attCache, F) :
                   attCache' = [E.attCache EXCEPT ![unlock_target[s]] =
                                   TargetRecords(s, E.attCache, okU)]
           ELSE attCache' = E.attCache
        /\ last' = Obs(s, "Render", E.g,
                       IF E.shown THEN GroupState(att[E.g]) ELSE NONE, E.entry, {},
                       IF E.raised THEN "exception" ELSE "")
        /\ view' = Seen(lh, E.entry)
        /\ UNCHANGED <<storeVars, sessVars, pending, sumCache, coursesCache, calc, dangerVars, authVars>>

\* ------------------------------------------------------------ specification
\* One browser session; every interaction is one run of the script.  F names
\* the queries that may raise.
PlainRemarks == {""}
ThisMonth == {MONTH_NAMES[CurrentMonth]}

NextOf(F) ==
    \E s \in {"A"} :
        \/ AdminLogin(s)
        \/ AdminLogout(s)
        \/ FacultyLogin(s)
        \/ FacultyLogout(s)
        \/ SelectCourse(s)
        \/ BackToDashboard(s)
        \/ UpdateEnrollment(s, F)
        \/ SaveDraft(s, F, PlainRemarks)
        \/ SubmitLock(s, F, PlainRemarks)
        \/ ConfirmLock(s, F, PlainRemarks)
        \/ CancelLock(s, F)
        \/ CheckStatus(s, ThisMonth)
        \/ UnlockRequest(s, F)
        \/ ConfirmUnlock(s, F)
        \/ CancelUnlock(s)
        \/ Render(s, F, {MaxVal})

\* Every query returns.
NoFaults == {}
Next == NextOf(NoFaults)

Spec == Init /\ [][Next]_vars

\* The same interactions when a query of the attendance table (the read of a
\* group's rows, the upsert, the unlock update) may raise.
Faults == {"records", "write"}
NextFaults == NextOf(Faults)

SpecFaults == Init /\ [][NextFaults]_vars

\* ------------------------------------------------------------ two sessions
\* Streamlit runs the script of every browser session in a thread of its own,
\* so the runs of two sessions interleave at their queries.  Here a saving
\* run is two steps: its reads and validation (Begin...), then its upsert
\* (CommitSave); the run of another session may come between them.
BeginSave(s, F, R, a, status_to_set) ==
    \E t \in EditorFaults(s, F) :
        LET E == Editor(s, 0, t[1], t[2], t[3]) IN
        /\ E.shown /\ ~E.locked
        /\ rosterCache' = E.rosterCache
        /\ enrCache' = E.enrCache
        /\ attCache' = E.attCache
        /\ \E edited \in Edits(E.entry, R) :
            IF ValidationErrors(edited) # {}
            THEN /\ pending' = pending
                 /\ last' = Obs(s, a, E.g, GroupState(att[E.g]), edited,
                                ValidationErrors(edited), "rejected")
            ELSE /\ pending' = [pending EXCEPT ![s] =
                        [active |-> TRUE, g |-> E.g, edited |-> edited,
                         status |-> status_to_set, a |-> a]]
                 /\ last' = Obs(s, a, E.g, GroupState(att[E.g]), edited, {}, "saving")

BeginSaveDraft(s, F, R) ==
    /\ BeginSave(s, F, R, "SaveDraft", STATUS_DRAFT)
    /\ UNCHANGED <<storeVars, sessVars, moreVars, calc, dangerVars, authVars>>

BeginConfirmLock(s, F, R) ==
    /\ confirm_lock[s]
    /\ confirm_lock' = [confirm_lock EXCEPT ![s] = FALSE]
    /\ BeginSave(s, F, R, "ConfirmLock", STATUS_LOCKED)
    /\ UNCHANGED <<storeVars, isAdmin, identity, selection, month, unlock_target,
                   confirm_unlock, moreVars, calc, dangerVars, authVars>>

CommitSave(s, F) ==
    /\ pending[s].active
    /\ LET p == pending[s] IN
       \E okW \in Ok(F, "write") :
          IF okW
          THEN /\ att' = Upsert(att, p.g, p.edited, p.status, identity[s])
               /\ attCache' = ClearedAtt
               /\ sumCache' = NotCachedSum
               /\ last' = Obs(s, p.a, p.g, GroupState(att[p.g]), p.edited, {}, "saved")
          ELSE /\ att' = att
               /\ attCache' = attCache
               /\ sumCache' = sumCache
               /\ last' = Obs(s, p.a, p.g, GroupState(att[p.g]), p.edited, {}, "db_error")
    /\ pending' = [pending EXCEPT ![s] = NoPending]
    /\ UNCHANGED <<enrollment, roster, courseTbl, facultyTbl, rosterCache, enrCache,
                   sessVars, coursesCache, view, calc, dangerVars, authVars>>

\* Session s has no run in progress: a session makes one run at a time.
Idle(s) == ~pending[s].active

\* Two faculty sessions on the same course; no query raises.
NextConc ==
    \E s \in Sessions :
        \/ Idle(s) /\ FacultyLogin(s)
        \/ Idle(s) /\ SelectCourse(s)
        \/ Idle(s) /\ SubmitLock(s, NoFaults, PlainRemarks)
        \/ Idle(s) /\ BeginSaveDraft(s, NoFaults, PlainRemarks)
        \/ Idle(s) /\ BeginConfirmLock(s, NoFaults, PlainRemarks)
        \/ CommitSave(s, NoFaults)

SpecConc == Init /\ [][NextConc]_vars

\* ------------------------------------------------------------ the resolver
\* The effective roster on any roster and any override set; no query raises.
\* The override may hold an id that is not in the roster: a bulk upload made
\* under another class configuration moves the student to that section, and
\* the bindings of the course stay.
InitResolver ==
    /\ \E roster0 \in SUBSET Students, enr0 \in SUBSET (Students \cup {StaleId}) :
          InitStore(roster0, [c \in Courses |-> IF c = "C1" THEN enr0 ELSE {}],
                    [c \in Courses |-> IF c = "C1" THEN "F1" ELSE NoOne], {"F1"})
    /\ InitRest
    /\ view = NoView(FALSE)
    /\ calc = NoCalc

NextResolver ==
    \E s \in {"A"} :
        \/ FacultyLogin(s)
        \/ SelectCourse(s)
        \/ UpdateEnrollment(s, NoFaults)
        \/ Render(s, NoFaults, Vals)

SpecResolver == InitResolver /\ [][NextResolver]_vars

\* ------------------------------------------------------------ enrollment
\* Two courses of the class, both assigned to F1; a delete or an insert of
\* enrollment bindings may raise.
InitEnroll ==
    /\ InitStore(Students, [c \in Courses |-> {}], [c \in Courses |-> "F1"], {"F1"})
    /\ InitRest
    /\ view = NoView(FALSE)
    /\ calc = NoCalc

EnrollFaults == {"enroll"}

NextEnroll ==
    \E s \in {"A"} :
        \/ FacultyLogin(s)
        \/ SelectCourse(s)
        \/ BackToDashboard(s)
        \/ UpdateEnrollment(s, EnrollFaults)
        \/ Render(s, NoFaults, {MaxVal})

SpecEnroll == InitEnroll /\ [][NextEnroll]_vars

\* ------------------------------------------------------------ cached views
\* The faculty's dashboard and editor beside the administrator's Unlock tab,
\* in one browser session; no query raises.
NextViews ==
    \E s \in {"A"} :
        \/ AdminLogin(s)
        \/ FacultyLogin(s)
        \/ Dashboard(s, NoFaults)
        \/ SelectCourse(s)
        \/ BackToDashboard(s)
        \/ SaveDraft(s, NoFaults, PlainRemarks)
        \/ SubmitLock(s, NoFaults, PlainRemarks)
        \/ ConfirmLock(s, NoFaults, PlainRemarks)
        \/ CheckStatus(s, ThisMonth)
        \/ UnlockRequest(s, NoFaults)
        \/ ConfirmUnlock(s, NoFaults)
        \/ Render(s, NoFaults, {MaxVal})

SpecViews == Init /\ [][NextViews]_vars

\* ------------------------------------------------------------ bulk data
\* A class with one student and one course; the administrator uploads files
\* and looks at the Enrollment tab.  No query raises.
InitBulk ==
    /\ InitStore({"S1"}, [c \in Courses |-> {}],
                 [c \in Courses |-> IF c = "C1" THEN "F1" ELSE NoOne], {"F1"})
    /\ InitRest
    /\ view = NoView(FALSE)
    /\ calc = NoCalc

NextBulk ==
    \E s \in {"A"} :
        \/ AdminLogin(s)
        \/ AdminLogout(s)
        \/ BulkUpload(s, NoFaults)
        \/ EnrollmentTab(s, NoFaults)

SpecBulk == InitBulk /\ [][NextBulk]_vars

\* ------------------------------------------------------------ the grid
\* The editor of one course with the grid on the screen recorded: any value
\* of "Total Lectures Held", a remark typed in every row saved (a default row
\* has none), the enrollment changed between saves.  No query raises.
InitGrid ==
    /\ InitStore(Students, [c \in Courses |-> {}],
                 [c \in Courses |-> IF c = "C1" THEN "F1" ELSE NoOne], {"F1"})
    /\ InitRest
    /\ view = NoView(TRUE)
    /\ calc = NoCalc

SomeRemarks == {"late"}

NextGrid ==
    \E s \in {"A"} :
        \/ FacultyLogin(s)
        \/ SelectCourse(s)
        \/ UpdateEnrollment(s, NoFaults)
        \/ SaveDraft(s, NoFaults, SomeRemarks)
        \/ SubmitLock(s, NoFaults, SomeRemarks)
        \/ ConfirmLock(s, NoFaults, SomeRemarks)
        \/ Render(s, NoFaults, Vals)

SpecGrid == InitGrid /\ [][NextGrid]_vars

\* ------------------------------------------------------------ other groups
\* The class has a second course, C2, assigned to a faculty who is not the one
\* logging in; its group of the current month already holds a LOCKED row.
OtherGroup == <<"C2", month_key(MONTH_NAMES[CurrentMonth], CurrentYear)>>
OtherRows ==
    [st \in Students |->
        IF st = "S1"
        THEN [held |-> MaxVal, att |-> MaxVal, status |-> STATUS_LOCKED,
              remarks |-> "", by |-> "F2"]
        ELSE NoRow]

InitFrame(on) ==
    /\ att = [g \in Groups |-> IF g = OtherGroup THEN OtherRows ELSE NoRows]
    /\ enrollment = [c \in Courses |-> {}]
    /\ roster = Students
    /\ courseTbl = [c \in Courses |-> IF c = "C1" THEN "F1" ELSE "F2"]
    /\ facultyTbl = {"F1"}
    /\ InitRest
    /\ view = NoView(on)
    /\ calc = NoCalc

\* The editor of C1 with the grid on the screen recorded, beside the rows of C2.
InitSaveFrame == InitFrame(TRUE)

SpecSaveFrame == InitSaveFrame /\ [][NextGrid]_vars

\* ------------------------------------------------------------ typed numbers
\* The data editor's LecturesHeld and Attended columns have no column
\* configuration, so a cell takes any integer, negative ones included.
CellVals == (0 - 1) .. MaxVal

NextCells ==
    \E s \in {"A"} :
        \/ FacultyLogin(s)
        \/ SelectCourse(s)
        \/ SaveDraftOver(s, NoFaults, PlainRemarks, CellVals)
        \/ Render(s, NoFaults, {MaxVal})

SpecCells == Init /\ [][NextCells]_vars

\* The editor of C1 and the administrator's Unlock tab, beside the rows of C2.
InitUnlockFrame == InitFrame(FALSE)

NextUnlockFrame ==
    \E s \in {"A"} :
        \/ AdminLogin(s)
        \/ FacultyLogin(s)
        \/ SelectCourse(s)
        \/ UpdateEnrollment(s, NoFaults)
        \/ SaveDraft(s, NoFaults, PlainRemarks)
        \/ SubmitLock(s, NoFaults, PlainRemarks)
        \/ ConfirmLock(s, NoFaults, PlainRemarks)
        \/ CheckStatus(s, ThisMonth)
        \/ UnlockRequest(s, NoFaults)
        \/ ConfirmUnlock(s, NoFaults)

SpecUnlockFrame == InitUnlockFrame /\ [][NextUnlockFrame]_vars

\* ------------------------------------------------------------ danger zone
\* The administrator's session under each configuration of the secrets: no
\* Danger Zone password, an empty one, a password.  Tables are refilled by
\* bulk uploads; a delete may raise.
Passwords == {NoPassword, "", "secret"}

InitDanger ==
    /\ InitStore({"S1"}, [c \in Courses |-> {}],
                 [c \in Courses |-> IF c = "C1" THEN "F1" ELSE NoOne], {"F1"})
    /\ \E password \in Passwords : InitWith(password)
    /\ view = NoView(FALSE)
    /\ calc = NoCalc

DeleteFaults == {"delete"}

NextDanger ==
    \E s \in {"A"} :
        \/ AdminLogin(s)
        \/ AdminLogout(s)
        \/ UnlockDangerZone(s)
        \/ LockDangerZone(s)
        \/ DeleteAll(s, DeleteFaults)
        \/ BulkUpload(s, NoFaults)

SpecDanger == InitDanger /\ [][NextDanger]_vars

\* ------------------------------------------------------------ course selection
\* Two faculty members take turns in one browser session, each with a course
\* of the class; the administrator, in the same session, uploads course files
\* that may assign a course to the other faculty.  The memos of
\* authenticate_faculty and get_all_assigned_courses_for_faculty are
\* recorded.  No query raises.
InitSelect ==
    /\ InitStore({"S1"}, [c \in Courses |-> {}],
                 [c \in Courses |-> IF c = "C1" THEN "F1" ELSE "F2"], {"F1", "F2"})
    /\ InitSession(NoPassword, TRUE)
    /\ view = NoView(FALSE)
    /\ calc = NoCalc

NextSelect ==
    \E s \in {"A"} :
        \/ AdminLogin(s)
        \/ (BulkUpload(s, NoFaults) /\ last'.prev = "Courses")
        \/ FacultyLogin(s)
        \/ FacultyLogout(s)
        \/ SelectCourse(s)
        \/ BackToDashboard(s)
        \/ SaveDraftOver(s, NoFaults, PlainRemarks, {0})

SpecSelect == InitSelect /\ [][NextSelect]_vars

\* ------------------------------------------------------------ faculty login
\* Faculty log in and out with any id and PIN while the administrator, in the
\* same session, deletes all faculty or uploads faculty files, which add a
\* record or replace its phone number.  The memo of authenticate_faculty is
\* recorded.  No query raises.
AuthPhones == {UsualPhone, <<"5", "5", "5", "9", "9", "9", "9">>}
AuthPins == {UsualPin, <<"9", "9", "9", "9">>}

InitAuth ==
    /\ InitStore({"S1"}, [c \in Courses |-> {}],
                 [c \in Courses |-> IF c = "C1" THEN "F1" ELSE NoOne], {"F1"})
    /\ InitSession("secret", TRUE)
    /\ view = NoView(FALSE)
    /\ calc = NoCalc

NextAuth ==
    \E s \in {"A"} :
        \/ AdminLogin(s)
        \/ UnlockDangerZone(s)
        \/ (DeleteAll(s, NoFaults) /\ last'.prev = "faculty")
        \/ (BulkUploadWith(s, NoFaults, AuthPhones) /\ last'.prev = "Faculty")
        \/ FacultyLoginWith(s, AuthPins)
        \/ FacultyLogout(s)

SpecAuth == InitAuth /\ [][NextAuth]_vars

\* ------------------------------------------------------------ unlock flow
\* The administrator's Unlock tab beside the editor of F1, the group of C2
\* being LOCKED from the start.  'Unlock These Records' is pressed only while
\* the target is that group; 'Check Status' may be pressed at any time, a
\* confirmation pending or not.  No query raises.
UnlockRequested == OtherGroup

NextUnlockFlow ==
    \E s \in {"A"} :
        \/ AdminLogin(s)
        \/ FacultyLogin(s)
        \/ SelectCourse(s)
        \/ SaveDraft(s, NoFaults, PlainRemarks)
        \/ SubmitLock(s, NoFaults, PlainRemarks)
        \/ ConfirmLock(s, NoFaults, PlainRemarks)
        \/ CheckStatus(s, ThisMonth)
        \/ (unlock_target[s] = UnlockRequested /\ UnlockRequest(s, NoFaults))
        \/ ConfirmUnlock(s, NoFaults)
        \/ CancelUnlock(s)

SpecUnlockFlow == InitUnlockFrame /\ [][NextUnlockFlow]_vars

\* ------------------------------------------------------------ lock flow
\* Two faculty members share one browser session, each with a course of the
\* class.  'Submit & Lock' is pressed only in the editor of C1 for the current
\* month; between the request and the confirmation the month may be changed,
\* the faculty may go back to the dashboard or log out, and another may log
\* in.  No query raises.
LockRequested == <<"C1", month_key(MONTH_NAMES[CurrentMonth], CurrentYear)>>

InitLockFlow ==
    /\ InitStore(Students, [c \in Courses |-> {}],
                 [c \in Courses |-> IF c = "C1" THEN "F1" ELSE "F2"], {"F1", "F2"})
    /\ InitRest
    /\ view = NoView(FALSE)
    /\ calc = NoCalc

NextLockFlow ==
    \E s \in {"A"} :
        \/ FacultyLogin(s)
        \/ FacultyLogout(s)
        \/ SelectCourse(s)
        \/ BackToDashboard(s)
        \/ SelectMonth(s)
        \/ (<<selection[s], month_key(month[s], CurrentYear)>> = LockRequested
               /\ SubmitLock(s, NoFaults, PlainRemarks))
        \/ ConfirmLock(s, NoFaults, PlainRemarks)
        \/ CancelLock(s, NoFaults)

SpecLockFlow == InitLockFlow /\ [][NextLockFlow]_vars

\* ------------------------------------------------------------ month_key
\* month_key called with a month name, one that is no month name included,
\* and a four-digit year.
Years == {1000, 1999, 2024, 2025, 2026, 9999}
NameInputs == {MONTH_NAMES[i] : i \in 1..Len(MONTH_NAMES)} \cup {"Sept"}

InitCalc(f, inputs, none) ==
    /\ InitStore(Students, [c \in Courses |-> {}],
                 [c \in Courses |-> IF c = "C1" THEN "F1" ELSE NoOne], {"F1"})
    /\ InitRest
    /\ view = NoView(FALSE)
    /\ \E in \in inputs : calc = [f |-> f, in |-> in, done |-> FALSE, out |-> none]

InitMonthKey == InitCalc("month_key", NameInputs \X Years, <<>>)

MonthKeyCall ==
    /\ calc.f = "month_key" /\ ~calc.done
    /\ calc' = [calc EXCEPT !.done = TRUE, !.out = MonthKeyText(calc.in[1], calc.in[2])]
    /\ UNCHANGED <<storeVars, cacheVars, sessVars, pending, last, moreVars, dangerVars, authVars>>

SpecMonthKey == InitMonthKey /\ [][MonthKeyCall]_vars

\* ------------------------------------------------------------ recent months
\* The status strip of the dashboard, drawn on a day of any month of a few
\* years: for i = 0, 1, 2 the month i months back, with its display name and
\* the key whose status is shown.
TodayYears == 2023..2027
Todays == (1..12) \X TodayYears

RecentMonths(today_month, today_year) ==
    [k \in 1..3 |->
        LET i == k - 1
            month_name == MONTH_NAMES[((today_month - 1 - i) % 12) + 1]
            year == IF today_month > i THEN today_year ELSE today_year - 1
        IN  [display_name |-> <<month_name, year>>,
             month_yyyy_mm |-> month_key(month_name, year)]]

\* The key the editor reads and writes when a month name is selected:
\* month_key(month_name), the year being the one of today.
EditorKey(month_name, today_year) == month_key(month_name, today_year)

InitRecent == InitCalc("recent_months", Todays, <<>>)

DashboardStrip ==
    /\ calc.f = "recent_months"
    /\ ~calc.done
    /\ calc' = [calc EXCEPT !.done = TRUE,
                            !.out = RecentMonths(calc.in[1], calc.in[2])]
    /\ UNCHANGED <<storeVars, cacheVars, sessVars, pending, last, moreVars, dangerVars, authVars>>

SpecRecent == InitRecent /\ [][DashboardStrip]_vars

\* ------------------------------------------------------------ defaulter list
\* percent is computed in binary floating point (float64): a positive number
\* is [m, x], m its 53 significant bits, first bit first, and x the power of
\* two of the first bit; every operation rounds to the nearest such number,
\* ties to the even one.
Precision == 53

RECURSIVE Bits(_)
Bits(n) == IF n < 2 THEN <<n>> ELSE Bits(n \div 2) \o <<n % 2>>

\* bits + 1, one bit longer when every bit was 1.
RECURSIVE Inc(_)
Inc(bits) ==
    IF bits = <<>> THEN <<1>>
    ELSE LET front == SubSeq(bits, 1, Len(bits) - 1) IN
         IF bits[Len(bits)] = 0 THEN front \o <<1>> ELSE Inc(front) \o <<0>>

\* The mantissa rounded up when up holds; a carry out of the first bit moves
\* the number to the next power of two.
Rounded(m, x, up) ==
    LET r == IF up THEN Inc(m) ELSE m IN
    IF Len(r) > Precision THEN [m |-> SubSeq(r, 1, Precision), x |-> x + 1]
    ELSE [m |-> r, x |-> x]

\* n more bits of the quotient r / h, r < h, after the bits of acc, and the
\* remainder left.
RECURSIVE DivBits(_, _, _, _)
DivBits(r, h, n, acc) ==
    IF n = 0 THEN [bits |-> acc, rem |-> r]
    ELSE IF 2 * r >= h THEN DivBits(2 * r - h, h, n - 1, acc \o <<1>>)
    ELSE DivBits(2 * r, h, n - 1, acc \o <<0>>)

\* a / h for 0 < a <= h.
FloatDiv(a, h) ==
    LET k == CHOOSE j \in 0..31 : a * 2^j >= h /\ (j = 0 \/ a * 2^(j - 1) < h)
        q == DivBits(a * 2^k - h, h, Precision - 1, <<1>>)
        m == q.bits
        up == 2 * q.rem > h \/ (2 * q.rem = h /\ m[Precision] = 1)
    IN  Rounded(m, 0 - k, up)

\* (bits * c + carry) followed by the bits of acc, for a small c.
RECURSIVE MulSmall(_, _, _, _)
MulSmall(bits, c, carry, acc) ==
    IF bits = <<>> THEN (IF carry = 0 THEN acc ELSE Bits(carry) \o acc)
    ELSE MulSmall(SubSeq(bits, 1, Len(bits) - 1), c,
                  (bits[Len(bits)] * c + carry) \div 2,
                  <<(bits[Len(bits)] * c + carry) % 2>> \o acc)

\* f * c for a small natural c > 0.
FloatMul(f, c) ==
    LET p == MulSmall(f.m, c, 0, <<>>)
        m == SubSeq(p, 1, Precision)
        dropped == SubSeq(p, Precision + 1, Len(p))
        up == /\ dropped # <<>> /\ dropped[1] = 1
              /\ \/ \E i \in 2..Len(dropped) : dropped[i] = 1
                 \/ m[Precision] = 1
    IN  Rounded(m, f.x + Len(p) - Precision, up)

\* f < t for a natural t.
FloatLess(f, t) ==
    IF t = 0 THEN FALSE
    ELSE LET tb == Bits(t)
             tm == tb \o [i \in 1..(Precision - Len(tb)) |-> 0] IN
         IF f.x # Len(tb) - 1 THEN f.x < Len(tb) - 1
         ELSE \E i \in 1..Precision :
                 /\ f.m[i] < tm[i]
                 /\ \A j \in 1..(i - 1) : f.m[j] = tm[j]

\* percent = total_attended / total_held * 100 if total_held > 0 else 0;
\* the student is listed when percent < threshold.
IsDefaulter(total_attended, total_held, threshold) ==
    IF total_held > 0 /\ total_attended > 0
    THEN FloatLess(FloatMul(FloatDiv(total_attended, total_held), 100), threshold)
    ELSE 0 < threshold

\* A student's totals over the month (attended, held) and a threshold.
Totals == {t \in {0, 3, 7, 29, 57, 75} \X {0, 4, 10, 50, 100} : t[1] <= t[2]}
Thresholds == {0, 29, 57, 58, 75, 100}

InitDefaulters ==
    InitCalc("defaulters", {<<t[1], t[2], th>> : t \in Totals, th \in Thresholds}, FALSE)

DefaulterList ==
    /\ calc.f = "defaulters" /\ ~calc.done
    /\ calc' = [calc EXCEPT !.done = TRUE,
                            !.out = IsDefaulter(calc.in[1], calc.in[2], calc.in[3])]
    /\ UNCHANGED <<storeVars, cacheVars, sessVars, pending, last, moreVars, dangerVars, authVars>>

SpecDefaulters == InitDefaulters /\ [][DefaulterList]_vars

\* ============================================================ properties
Rows(g) == {st \in Students : att[g][st].status # NONE}
FacultySaves == {"SaveDraft", "ConfirmLock"}

\* C1: after any sequence of operations every persisted attendance row has
\* attended <= lectures_held.
C1_AttendedWithinHeld ==
    \A g \in Groups : \A st \in Rows(g) : att[g][st].att <= att[g][st].held

\* A lock has been saved and a row with attended = lectures_held > 0 persists.
C1_Witness ==
    /\ last.a = "ConfirmLock" /\ last.out = "saved"
    /\ \E st \in Rows(last.g) :
          att[last.g][st].att = MaxVal /\ att[last.g][st].held = MaxVal

\* C2: a batch save (draft or lock) whose edited grid has a row with
\* attended > lectures_held leaves the whole store as it was.
C2_RejectedBatchWritesNothing ==
    [][(last'.a \in FacultySaves /\ last'.over # {})
          => (att' = att /\ enrollment' = enrollment /\ last'.out = "rejected")]_vars

\* A save was rejected whose grid also held a valid row for a student who
\* still has no persisted row, beside a student whose row persists unchanged.
C2_Witness ==
    /\ last.a \in FacultySaves /\ last.out = "rejected"
    /\ \E b \in last.over, v \in last.rows \ last.over :
          /\ att[last.g][v].status = NONE
          /\ att[last.g][b].status # NONE

\* C3: while a group has persisted LOCKED rows, nothing but a confirmed
\* administrator unlock writes a row of that group.
C3_LockedGroupWrittenOnlyByUnlock ==
    [][\A g \in Groups :
          (GroupState(att[g]) = STATUS_LOCKED /\ att'[g] # att[g])
             => last'.a = "ConfirmUnlock"]_vars

C5_UniformStatus ==
    \A g \in Groups : \A st1, st2 \in Rows(g) :
        att[g][st1].status = att[g][st2].status

\* C6: a LOCKED row changes only by the unlock action run in a session whose
\* administrator login is active, and then only its status, to DRAFT.
C6_LockedRowChangedOnlyByAdminUnlock ==
    [][\A g \in Groups : \A st \in Students :
          (att[g][st].status = STATUS_LOCKED /\ att'[g][st] # att[g][st])
             => /\ last'.a = "ConfirmUnlock"
                /\ isAdmin[last'.s]
                /\ att'[g][st] = [att[g][st] EXCEPT !.status = STATUS_DRAFT]]_vars

EditorWritable(s, g) ==
    LET E == Editor(s, 0, TRUE, TRUE, TRUE) IN E.shown /\ E.g = g /\ ~E.locked
\* The memo holds the result of a failed read of g, whose rows are LOCKED.
ReadFailedOnLocked(g) ==
    attCache[g].cached /\ ~attCache[g].ok /\ GroupState(att[g]) = STATUS_LOCKED

\* C8: when the read of a group's rows has failed and the group's persisted
\* rows are LOCKED, the editor of that group is not writable and no faculty
\* save changes the group.
C8_FailedReadKeepsLock ==
    [][\A g \in Groups :
          /\ ReadFailedOnLocked(g)' => \A s \in Sessions : ~EditorWritable(s, g)'
          /\ (ReadFailedOnLocked(g) /\ last'.a \in FacultySaves) => att'[g] = att[g]]_vars

\* C9: a "Save as Draft" of one session never changes a row that is LOCKED
\* in the store.
C9_DraftSaveNeverOverwritesLocked ==
    [][\A g \in Groups : \A st \in Students :
          (att[g][st].status = STATUS_LOCKED /\ last'.a = "SaveDraft")
             => att'[g][st] = att[g][st]]_vars

\* C10: the grid shows the whole roster when the override set is empty, and
\* otherwise exactly the roster students whose id is in the override set
\* (ids absent from the roster are ignored, no error); an override whose ids
\* are all in the roster shows exactly that many students.
C10_EffectiveRoster ==
    (last.a = "Render" /\ identity[last.s] # NoOne /\ selection[last.s] # NoOne)
       => LET override == enrollment[selection[last.s]] IN
          /\ override = {} => last.rows = roster
          /\ override # {} =>
                /\ \A st \in Students :
                      st \in last.rows <=> (st \in roster /\ st \in override)
                /\ override \subseteq roster =>
                      Cardinality(last.rows) = Cardinality(override)
                /\ last.out # "exception"

\* C11: after a successful enrollment update of a course, the bindings of
\* that course are exactly the students selected (none when none is selected),
\* and the bindings of every other course are as they were.
C11_UpdateReplacesExactly ==
    [][(last'.a = "UpdateEnrollment" /\ last'.out = "saved")
          => enrollment' = [enrollment EXCEPT ![selection[last'.s]] = last'.rows]]_vars

\* An update has just bound one student to a course while the other course
\* has a different student bound.
C11_Witness ==
    /\ last.a = "UpdateEnrollment" /\ last.out = "saved" /\ last.rows = {"S1"}
    /\ enrollment[selection[last.s]] = {"S1"}
    /\ \E c \in Courses \ {selection[last.s]} : enrollment[c] = {"S2"}

\* C12: an enrollment update whose delete or insert raises leaves the
\* persisted bindings as they were.
C12_FailedUpdateKeepsBindings ==
    [][(last'.a = "UpdateEnrollment" /\ last'.out = "db_error")
          => enrollment' = enrollment]_vars

\* The statuses persisted for the groups of a set of courses.
StatusesOf(tbl, courses) ==
    [g \in Groups |-> [st \in Students |->
        IF g[1] \in courses THEN tbl[g][st].status ELSE NONE]]

\* C13: after a successful faculty save, the next read of the group's records
\* and the next read of the dashboard's status summary return what the store
\* holds after the save.
C13_SaveRefreshesViews ==
    [][(last'.a \in FacultySaves /\ last'.out = "saved")
          => LET courses == AssignedCourses(identity[last'.s])
                 recs == get_attendance_records(attCache', att', last'.g, TRUE)
                 sum == get_attendance_status_summary(sumCache', att', courses, TRUE) IN
             /\ recs.rows = att'[last'.g]
             /\ sum.rows = StatusesOf(att', courses)]_vars

\* A lock has just been saved over a draft that the dashboard had summarized
\* and the editor had read.
C13_Witness ==
    /\ last.a = "ConfirmLock" /\ last.out = "saved" /\ last.prev = STATUS_DRAFT
    /\ GroupState(att[last.g]) = STATUS_LOCKED
    /\ ~sumCache.cached /\ ~attCache[last.g].cached

\* C14: after a successful administrator unlock, the next read of the
\* group's records and the next read of the dashboard's status summary
\* report no LOCKED row for the group.
C14_UnlockRefreshesViews ==
    [][(last'.a = "ConfirmUnlock" /\ last'.out = "saved")
          => LET courses == {last'.g[1]}
                 recs == get_attendance_records(attCache', att', last'.g, TRUE)
                 sum == get_attendance_status_summary(sumCache', att', courses, TRUE) IN
             \A st \in Students :
                 /\ recs.rows[st].status # STATUS_LOCKED
                 /\ sum.rows[last'.g][st] # STATUS_LOCKED]_vars

\* C15: after a successful enrollment update of a course, the next read of
\* the course's enrolled students returns the set just stored, and the
\* students the grid shows are resolved from that set.
C15_UpdateRefreshesEnrollmentView ==
    [][(last'.a = "UpdateEnrollment" /\ last'.out = "saved")
          => LET c == selection[last'.s]
                 rc == load_roster(rosterCache', roster', TRUE)
                 ec == get_enrolled_students(enrCache', enrollment', c, TRUE) IN
             /\ ec.ids = last'.rows
             /\ StudentsToShow(rc.ids, ec.ids) =
                    IF last'.rows = {} THEN roster' ELSE last'.rows \cap roster']_vars

\* An update has just replaced the bindings of a course by one student, and
\* the memo of the course's enrolled students holds no older answer.
C15_Witness ==
    /\ last.a = "UpdateEnrollment" /\ last.out = "saved" /\ last.rows = {"S2"}
    /\ ~enrCache[selection[last.s]].cached
    /\ get_enrolled_students(enrCache, enrollment, selection[last.s], TRUE).ids = {"S2"}

\* C16: after a successful bulk upload of students or courses, the next
\* read of the roster and the next read of the course list return what the
\* store holds after the upload.
C16_UploadRefreshesViews ==
    [][(last'.a = "BulkUpload" /\ last'.out = "saved")
          => /\ load_roster(rosterCache', roster', TRUE).ids = roster'
             /\ get_courses(coursesCache', courseTbl', TRUE).rows = courseTbl']_vars

\* The students the editor of a course is to show: the roster when the course
\* has no binding, else the roster students bound to it.
EffectiveRoster(c) ==
    IF enrollment[c] = {} THEN roster ELSE roster \cap enrollment[c]

\* C17: the grid a run draws has a row for each student of the effective
\* roster and for no one else; a student with a persisted row of the group
\* shows that row's lectures held, attended, status and remarks whatever the
\* session's "Total Lectures Held" is; a student without one shows the
\* session's lectures held, attended 0, DRAFT and empty remarks.
C17_GridMerge ==
    (last.a = "Render" /\ identity[last.s] # NoOne /\ selection[last.s] # NoOne)
       => LET c == selection[last.s]
              g == <<c, month_key(month[last.s], CurrentYear)>> IN
          /\ Shown(view.cells) = EffectiveRoster(c)
          /\ \A st \in EffectiveRoster(c) :
                view.cells[st] =
                   IF att[g][st].status # NONE
                   THEN [held |-> att[g][st].held, att |-> att[g][st].att,
                         status |-> att[g][st].status, remarks |-> att[g][st].remarks]
                   ELSE [held |-> view.lh, att |-> 0, status |-> STATUS_DRAFT,
                         remarks |-> ""]

\* A grid is drawn with "Total Lectures Held" at MaxVal in which one student
\* shows a persisted row with other lectures held and a remark, and another
\* student, with no persisted row, shows the defaults.
C17_Witness ==
    /\ last.a = "Render" /\ view.lh = MaxVal
    /\ \E st1, st2 \in Shown(view.cells) :
          /\ att[last.g][st1].status # NONE
          /\ view.cells[st1].held = 0 /\ view.cells[st1].remarks = "late"
          /\ att[last.g][st2].status = NONE
          /\ view.cells[st2].held = MaxVal

\* C18: building the grid changes neither the persisted rows nor the roster
\* nor the enrollment, and building it again from the same store with the
\* same "Total Lectures Held" gives the same grid.
C18_GridMergeIsPure ==
    [][/\ last'.a = "Render" =>
             (att' = att /\ roster' = roster /\ enrollment' = enrollment)
       /\ (last.a = "Render" /\ last'.a = "Render" /\ last'.s = last.s
              /\ view'.lh = view.lh)
             => view' = view]_vars

\* A grid that mixes a persisted row and a default row is on the screen, drawn
\* with "Total Lectures Held" at 0.
C18_Witness ==
    /\ last.a = "Render" /\ view.lh = 0
    /\ \E st1, st2 \in Shown(view.cells) :
          /\ att[last.g][st1].status # NONE /\ view.cells[st1].held = MaxVal
          /\ att[last.g][st2].status = NONE

\* The status a faculty save sets.
StatusSet(a) == IF a = "ConfirmLock" THEN STATUS_LOCKED ELSE STATUS_DRAFT

\* C19: after a successful save of an edited grid with status s, the grid the
\* next run builds for the group, with any "Total Lectures Held", shows for
\* every saved student the lectures held, attended and remarks of the edited
\* grid, with status s.
C19_SaveThenRebuild ==
    [][(last.a \in FacultySaves /\ last.out = "saved" /\ last'.a = "Render"
           /\ last'.s = last.s /\ selection'[last.s] # NoOne)
          => /\ last'.g = last.g
             /\ Shown(view'.cells) = Shown(view.cells)
             /\ \A st \in Shown(view.cells) :
                   view'.cells[st] =
                      [view.cells[st] EXCEPT !.status = StatusSet(last.a)]]_vars

\* A locked grid is on the screen with "Total Lectures Held" at 0, a row of
\* which shows the lectures held, attended and remark that were saved.
C19_Witness ==
    /\ last.a = "Render" /\ view.lh = 0 /\ last.prev = STATUS_LOCKED
    /\ \E st \in Shown(view.cells) :
          view.cells[st] = [held |-> MaxVal, att |-> MaxVal,
                            status |-> STATUS_LOCKED, remarks |-> "late"]

\* The next run of the session of the last interaction draws the data editor
\* and its save buttons for the group of that interaction: a course is
\* selected, there are students to show, and none of them has a LOCKED row.
LastEditorWritable ==
    LET c == selection[last.s]
        rc == load_roster(rosterCache, roster, TRUE)
        ec == get_enrolled_students(enrCache, enrollment, c, TRUE)
        recs == get_attendance_records(attCache, att, last.g, TRUE) IN
    /\ identity[last.s] # NoOne /\ c # NoOne
    /\ last.g = <<c, month_key(month[last.s], CurrentYear)>>
    /\ ~MultiselectRaises(rc.ids, ec.ids)
    /\ StudentsToShow(rc.ids, ec.ids) # {}
    /\ \A st \in StudentsToShow(rc.ids, ec.ids) : recs.rows[st].status # STATUS_LOCKED

\* C20: a faculty save warns about exactly the rows whose attended exceeds
\* lectures held; it is rejected when there is such a row and saved when there
\* is none; a rejected save leaves the editor of the group open for a
\* corrected save.
C20_ValidationReportsEveryRow ==
    [][last'.a \in FacultySaves
          => /\ last'.errors = last'.over
             /\ last'.out = (IF last'.over # {} THEN "rejected" ELSE "saved")
             /\ last'.out = "rejected" => LastEditorWritable']_vars

\* A save of a grid in which both students' attended exceeded lectures held
\* was rejected with a warning about each, and the group's rows of an earlier
\* save persist.
C20_Witness ==
    /\ last.a \in FacultySaves /\ last.out = "rejected"
    /\ last.errors = Students
    /\ Rows(last.g) = Students

\* C21: a successful faculty save with status s leaves, for every student of
\* the edited grid, one row of the group with the grid's lectures held,
\* attended and remarks, status s and the acting faculty as updater; the rows
\* of the group for students not in the grid, and the rows of every other
\* group, are as they were.
C21_SaveWritesExactlyTheGrid ==
    [][(last'.a \in FacultySaves /\ last'.out = "saved")
          => LET g == last'.g IN
             /\ \A st \in Students :
                   att'[g][st] =
                      IF st \in Shown(view'.cells)
                      THEN [held |-> view'.cells[st].held, att |-> view'.cells[st].att,
                            status |-> StatusSet(last'.a),
                            remarks |-> view'.cells[st].remarks,
                            by |-> identity[last'.s]]
                      ELSE att[g][st]
             /\ \A h \in Groups \ {g} : att'[h] = att[h]]_vars

\* A save of a grid of one student has just succeeded while the group holds
\* a row of the other student and the group of the other course holds rows.
C21_Witness ==
    /\ last.a \in FacultySaves /\ last.out = "saved"
    /\ last.rows = {"S1"} /\ Rows(last.g) = Students
    /\ last.g # OtherGroup /\ Rows(OtherGroup) # {}

\* C22: every persisted attendance row has lectures held >= 0 and attended
\* >= 0, whatever numbers are typed into the grid before a save.
C22_NonNegativeRows ==
    \A g \in Groups : \A st \in Rows(g) :
        att[g][st].held >= 0 /\ att[g][st].att >= 0

\* C23: a confirmed unlock sets the status of every persisted row of the
\* target group to DRAFT, whether or not the student is still shown in the
\* editor and whatever the row holds, and changes nothing else: the other
\* fields of those rows, the rows of every other group, the roster and the
\* enrollment are as they were.
C23_UnlockWritesOnlyStatus ==
    [][(last'.a = "ConfirmUnlock" /\ last'.out = "saved")
          => LET g == last'.g IN
             /\ g = unlock_target[last'.s]
             /\ \A st \in Students :
                   att'[g][st] =
                      IF att[g][st].status = NONE THEN att[g][st]
                      ELSE [att[g][st] EXCEPT !.status = STATUS_DRAFT]
             /\ \A h \in Groups \ {g} : att'[h] = att[h]
             /\ roster' = roster /\ enrollment' = enrollment
             /\ courseTbl' = courseTbl /\ facultyTbl' = facultyTbl]_vars

\* An unlock has just been confirmed for a group that holds a row of a
\* student the editor no longer shows, with attended and lectures held at
\* MaxVal, while the group of the other course is still LOCKED.
C23_Witness ==
    /\ last.a = "ConfirmUnlock" /\ last.out = "saved" /\ last.g # OtherGroup
    /\ \E st \in Rows(last.g) \ EffectiveRoster(last.g[1]) :
          att[last.g][st] = [held |-> MaxVal, att |-> MaxVal, status |-> STATUS_DRAFT,
                             remarks |-> "", by |-> "F1"]
    /\ GroupState(att[OtherGroup]) = STATUS_LOCKED

\* C24: for each of the twelve month names and every four-digit year the
\* month key has six characters, the first four being the year and the last
\* two the month number (January 01 ... December 12), so the year and the
\* month are read back from the key; September 2025 gives 202509.
C24_MonthKeyFormat ==
    (calc.f = "month_key" /\ calc.done /\ calc.in[1] # "Sept")
       => LET k == calc.out IN
          /\ Len(k) = 6
          /\ \A i \in 1..6 : k[i] \in 0..9
          /\ k[1] * 1000 + k[2] * 100 + k[3] * 10 + k[4] = calc.in[2]
          /\ k[5] * 10 + k[6] \in 1..12
          /\ MONTH_NAMES[k[5] * 10 + k[6]] = calc.in[1]
          /\ calc.in = <<"September", 2025>> => k = <<2, 0, 2, 5, 0, 9>>

\* The key of September 2025 has been computed.
C24_Witness ==
    calc.f = "month_key" /\ calc.done /\ calc.in = <<"September", 2025>>
       /\ calc.out = <<2, 0, 2, 5, 0, 9>>

\* C25: a student with totals (attended, held) is in the defaulter list for
\* threshold T exactly when attended * 100 < T * held, if held > 0; with
\* held = 0 the student is listed exactly when T > 0.
C25_DefaulterIffBelowThreshold ==
    (calc.f = "defaulters" /\ calc.done)
       => LET a == calc.in[1]
              h == calc.in[2]
              T == calc.in[3] IN
          calc.out = (IF h > 0 THEN a * 100 < T * h ELSE T > 0)

\* C26: a bulk import whose file repeats an id is refused as a whole: the
\* students, the faculty, the courses, the bindings and the attendance rows
\* are what they were before the upload.
C26_DuplicateUploadRejected ==
    [][(last'.a = "BulkUpload" /\ last'.over # {})
          => /\ last'.out = "rejected"
             /\ UNCHANGED storeVars]_vars

\* A file of students repeating an id the roster does not hold was refused.
C26_Witness ==
    /\ last.a = "BulkUpload" /\ last.prev = "Students"
    /\ last.over # {} /\ last.out = "rejected"
    /\ last.rows \cap roster = {}

\* C27: 'Submit & Lock' having been requested for one group only, a
\* confirmation writes LOCKED to that group and to no other, whatever month or
\* course is on the screen and whoever is logged in when it is confirmed.
C27_LockOnlyRequestedGroup ==
    [][(last'.a = "ConfirmLock" /\ last'.out = "saved")
          => last'.g = LockRequested]_vars

\* C28: 'Unlock These Records' having been pressed for one group only, a
\* confirmed unlock changes the rows of that group and of no other, 'Check
\* Status' pressed in between or not; and while confirm_unlock is set there
\* is an unlock target.
C28_UnlockOnlyRequestedGroup ==
    [][/\ last'.a = "ConfirmUnlock"
            => \A g \in Groups \ {UnlockRequested} : att'[g] = att[g]
       /\ \A s \in Sessions : confirm_unlock'[s] => unlock_target'[s] # NoGroup]_vars

\* C29: whatever the current month, each of the three recent months of the
\* dashboard's status strip shows the status of the key the editor reads and
\* writes when the month of that name is selected.
C29_DashboardKeyIsEditorKey ==
    (calc.f = "recent_months" /\ calc.done)
       => \A k \in 1..3 :
             calc.out[k].month_yyyy_mm
                = EditorKey(calc.out[k].display_name[1], calc.in[2])

\* C30: the Danger Zone of a session is unlocked only while its admin is
\* logged in; it becomes unlocked only by the configured password being
\* submitted, never with no password configured; a wrong password leaves it
\* locked and an admin logout locks it; and students, faculty or courses are
\* wiped only in a session whose admin login and unlock are both active.
C30_DangerZoneGated ==
    [][\A s \in Sessions :
        /\ DANGER_ZONE_ACTIVE'[s] => isAdmin'[s]
        /\ (~DANGER_ZONE_ACTIVE[s] /\ DANGER_ZONE_ACTIVE'[s])
              => /\ last'.s = s /\ last'.a = "UnlockDangerZone"
                 /\ last'.prev = DANGER_ZONE_PASSWORD
                 /\ DANGER_ZONE_PASSWORD # NoPassword
        /\ (last'.s = s /\ last'.a = "UnlockDangerZone"
                /\ last'.prev # DANGER_ZONE_PASSWORD)
              => ~DANGER_ZONE_ACTIVE'[s]
        /\ (isAdmin[s] /\ ~isAdmin'[s]) => ~DANGER_ZONE_ACTIVE'[s]
        /\ (last'.s = s
               /\ \/ last'.a = "DeleteAll"
                  \/ ~(roster \subseteq roster')
                  \/ ~(facultyTbl \subseteq facultyTbl')
                  \/ \E c \in Courses : courseTbl[c] # NoOne /\ courseTbl'[c] = NoOne)
              => (isAdmin[s] /\ DANGER_ZONE_ACTIVE[s])]_vars

\* In a session with the admin logged in and the zone unlocked by the
\* configured password, all students were deleted.
C30_Witness ==
    /\ last.a = "DeleteAll" /\ last.prev = "students" /\ last.out = "deleted"
    /\ roster = {}
    /\ isAdmin[last.s] /\ DANGER_ZONE_ACTIVE[last.s]
    /\ DANGER_ZONE_PASSWORD = "secret"

\* C31: a session holds a course selection only while a faculty is logged in
\* to it; a selection is made by the faculty logged in, from the list of
\* assigned courses the dashboard holds for that faculty; whenever the
\* identity of the session changes no selection is left; so every attendance
\* upsert is for the course the faculty logged in has selected, and its rows
\* are stamped with that faculty's id.
C31_SelectionBelongsToIdentity ==
    [][\A s \in Sessions :
        /\ selection'[s] # NoOne => identity'[s] # NoOne
        /\ (selection'[s] # selection[s] /\ selection'[s] # NoOne)
              => /\ identity[s] # NoOne
                 /\ identity'[s] = identity[s]
                 /\ selection[s] = NoOne
                 /\ selection'[s] \in
                       get_all_assigned_courses_for_faculty(facultyMemo, identity[s]).rows
        /\ identity'[s] # identity[s] => selection'[s] = NoOne
        /\ (last'.s = s /\ last'.a \in FacultySaves /\ last'.out = "saved")
              => /\ identity[s] # NoOne
                 /\ identity'[s] = identity[s]
                 /\ last'.g[1] = selection[s]
                 /\ \A g \in Groups : \A st \in Students :
                       att'[g][st] # att[g][st]
                          => g = last'.g /\ att'[g][st].by = identity[s]]_vars

\* F2, logged in to a session F1 has used before, saved rows of the course
\* F2 selected, and they carry F2's id.
C31_Witness ==
    /\ last.a = "SaveDraft" /\ last.out = "saved"
    /\ identity[last.s] = "F2"
    /\ selection[last.s] = last.g[1]
    /\ facultyMemo.auth[<<"F1", UsualPin>>] = "F1"
    /\ \E st \in Students : att[last.g][st].by = "F2"

\* C32: a faculty login succeeds only with the id of a faculty record the
\* store holds at that moment and a PIN of exactly four digits equal to the
\* last four characters of the phone number stored for it; so after the
\* record is deleted or its phone number replaced the old pair fails.
C32_LoginNeedsCurrentRecord ==
    [][\A s \in Sessions :
        (identity[s] = NoOne /\ identity'[s] # NoOne)
           => LET fac_id == calc'.in[1]
                  fac_pin == calc'.in[2] IN
              /\ calc'.f = "authenticate_faculty"
              /\ identity'[s] = fac_id
              /\ fac_id \in facultyTbl
              /\ Len(fac_pin) = 4
              /\ \A i \in 1..4 : fac_pin[i] \in Digits
              /\ Len(phone_number[fac_id]) >= 4
              /\ SubSeq(phone_number[fac_id], Len(phone_number[fac_id]) - 3,
                        Len(phone_number[fac_id])) = fac_pin]_vars

====
